---- MODULE Spec2Model ----
(***************************************************************************)
(* Tactical resolution engine of the skirmish game (src/main.js, kept      *)
(* in this tree as src/unnamed/part_000).                                  *)
(*                                                                         *)
(* The program state is the `game` singleton and the Unit list.  Every UI  *)
(* callback (action button, canvas click, End Activation, Next Round) runs *)
(* to completion, so each is one action of the model and contains every    *)
(* call the handler makes (resolver, spendAction, checkRoundEnd,           *)
(* startRound).  Resolvers are operators from a game record to a game      *)
(* record, composed in the order the code calls them.                      *)
(*                                                                         *)
(* Five specifications: Spec (a game between two made warbands), SpecMelee *)
(* (the same game started in engagement), SpecBoot (the page from boot,    *)
(* with the data load pending, done or failed), SpecFn (the pure           *)
(* functions, applied to inputs drawn from bounded sets) and SpecRound     *)
(* (the round rollover of the documentation site's Game in                 *)
(* src/docs/site/src/sim.js, call by call).                                *)
(*                                                                         *)
(* Left out: game.selectedId and game.initiative (written, read only by    *)
(* the side panel and the log), movedThisActivation and deployedThisGame   *)
(* (written, never read), names, rendering.                                *)
(***************************************************************************)
EXTENDS Integers, Sequences, FiniteSets, TLC

\* ------------------------------------------------------------------ bounds
GRID_W == 5
GRID_H == 2
MaxSteps == 6

\* --------------------------------------------------------------- constants
TILE_EMPTY == 0
TILE_HEAVY == 1
TILE_BLOCK == 2
MaxHorror == 5
BaseActions == 3
MovePerAction == 2
EdgeWidth == 2
MaxAim == 2

None == "none"
ActionKinds == {"Move", "Charge", "Shoot", "Fight", "Disengage", "Recover", "Aim"}
D20 == 1..20

Abs(n) == IF n < 0 THEN -n ELSE n
Max2(a, b) == IF a >= b THEN a ELSE b
Min2(a, b) == IF a <= b THEN a ELSE b

\* ---------------------------------------------------------------- geometry
chebDist(ax, ay, bx, by) == Max2(Abs(ax - bx), Abs(ay - by))

\* tiles / 2 is kept exact by carrying twice the metres
tilesToMeters2(tiles) == tiles

withinGrid(x, y) == x >= 0 /\ y >= 0 /\ x < GRID_W /\ y < GRID_H

RECURSIVE bresWalk(_, _, _, _, _, _, _, _, _)
bresWalk(x, y, err, x1, y1, dx, dy, sx, sy) ==
  IF x = x1 /\ y = y1 THEN << <<x, y>> >>
  ELSE LET e2 == 2 * err
           stepX == e2 >= dy
           err1 == IF stepX THEN err + dy ELSE err
           xn == IF stepX THEN x + sx ELSE x
           stepY == e2 <= dx
           err2 == IF stepY THEN err1 + dx ELSE err1
           yn == IF stepY THEN y + sy ELSE y
       IN << <<x, y>> >> \o bresWalk(xn, yn, err2, x1, y1, dx, dy, sx, sy)

bresenham(x0, y0, x1, y1) ==
  LET dx == Abs(x1 - x0)
      sx == IF x0 < x1 THEN 1 ELSE -1
      dy == -Abs(y1 - y0)
      sy == IF y0 < y1 THEN 1 ELSE -1
  IN bresWalk(x0, y0, dx + dy, x1, y1, dx, dy, sx, sy)

\* One map newRandomMap can produce: the two edge columns on each side stay
\* empty; of the columns between them the first holds a HeavyCover tile in
\* row 0 and a Blocking tile in row 1.
board ==
  [y \in 0..(GRID_H - 1) |->
     [x \in 0..(GRID_W - 1) |->
        IF x < EdgeWidth \/ x >= GRID_W - EdgeWidth THEN TILE_EMPTY
        ELSE IF y = 0 /\ x = EdgeWidth THEN TILE_HEAVY
        ELSE IF y = 1 /\ x = EdgeWidth THEN TILE_BLOCK
        ELSE TILE_EMPTY]]

Offsets == {o \in (-1..1) \X (-1..1) : o # <<0, 0>>}

cornerClipLightCover(linePts, b) ==
  LET seen == {linePts[i] : i \in 1..Len(linePts)}
  IN \E i \in 1..Len(linePts) : \E o \in Offsets :
       LET nx == linePts[i][1] + o[1]
           ny == linePts[i][2] + o[2]
       IN withinGrid(nx, ny) /\ b[ny][nx] = TILE_BLOCK /\ <<nx, ny>> \notin seen

adjacentToObstacle(tx, ty, b) ==
  \E o \in Offsets :
    LET nx == tx + o[1]
        ny == ty + o[2]
    IN withinGrid(nx, ny) /\ (b[ny][nx] = TILE_BLOCK \/ b[ny][nx] = TILE_HEAVY)

\* mutant: the target's own tile is not looked at
losInfoBetween(ax, ay, bx, by, b) ==
  LET pts == bresenham(ax, ay, bx, by)
      rest == 2..(Len(pts) - 1)
      blocked == \E i \in rest : b[pts[i][2]][pts[i][1]] = TILE_BLOCK
      heavyOnLine == \E i \in rest : b[pts[i][2]][pts[i][1]] = TILE_HEAVY
      light == cornerClipLightCover(pts, b)
               \/ adjacentToObstacle(bx, by, b)
               \/ adjacentToObstacle(ax, ay, b)
  IN IF blocked THEN [hasLoS |-> FALSE, cover |-> "block"]
     ELSE IF heavyOnLine THEN [hasLoS |-> TRUE, cover |-> "heavy"]
     ELSE [hasLoS |-> TRUE, cover |-> IF light THEN "light" ELSE "none"]

\* mutant: a light-cover flag outranks heavy cover on the line
losInfoLightFirst(ax, ay, bx, by, b) ==
  LET pts == bresenham(ax, ay, bx, by)
      rest == 2..Len(pts)
      blocked == \E i \in rest : b[pts[i][2]][pts[i][1]] = TILE_BLOCK
      heavyOnLine == \E i \in rest : b[pts[i][2]][pts[i][1]] = TILE_HEAVY
      light == cornerClipLightCover(pts, b)
               \/ adjacentToObstacle(bx, by, b)
               \/ adjacentToObstacle(ax, ay, b)
  IN IF blocked THEN [hasLoS |-> FALSE, cover |-> "block"]
     ELSE IF light THEN [hasLoS |-> TRUE, cover |-> "light"]
     ELSE [hasLoS |-> TRUE, cover |-> IF heavyOnLine THEN "heavy" ELSE "none"]

losInfo(ax, ay, bx, by, b) ==
  LET pts == bresenham(ax, ay, bx, by)
      rest == 2..Len(pts)
      blocked == \E i \in rest : b[pts[i][2]][pts[i][1]] = TILE_BLOCK
      heavyOnLine == \E i \in rest : b[pts[i][2]][pts[i][1]] = TILE_HEAVY
      light == cornerClipLightCover(pts, b)
               \/ adjacentToObstacle(bx, by, b)
               \/ adjacentToObstacle(ax, ay, b)
  IN IF blocked THEN [hasLoS |-> FALSE, cover |-> "block"]
     ELSE IF heavyOnLine THEN [hasLoS |-> TRUE, cover |-> "heavy"]
     ELSE [hasLoS |-> TRUE, cover |-> IF light THEN "light" ELSE "none"]

\* ------------------------------------------------------------- stat tables
DEF_WILL_TABLE ==
  [t \in 0..3 |-> CASE t = 0 -> [mod |-> -2, cost |-> 0]
                    [] t = 1 -> [mod |-> 0, cost |-> 2]
                    [] t = 2 -> [mod |-> 2, cost |-> 4]
                    [] t = 3 -> [mod |-> 4, cost |-> 8]]

SHOOT_FIGHT_TABLE ==
  [t \in 0..3 |-> CASE t = 0 -> [mod |-> -2, cost |-> 0]
                    [] t = 1 -> [mod |-> -2, cost |-> 0]
                    [] t = 2 -> [mod |-> 2, cost |-> 3]
                    [] t = 3 -> [mod |-> 4, cost |-> 6]]

SAVE_TARGET_BY_WILL ==
  [t \in 0..3 |-> CASE t = 0 -> 14 [] t = 1 -> 14 [] t = 2 -> 13 [] t = 3 -> 11]

defenseMod(tier) == IF tier \in 0..3 THEN DEF_WILL_TABLE[tier].mod ELSE DEF_WILL_TABLE[1].mod
willMod(tier) == IF tier \in 0..3 THEN DEF_WILL_TABLE[tier].mod ELSE DEF_WILL_TABLE[1].mod
shootMod(tier) == IF tier \in 0..3 THEN SHOOT_FIGHT_TABLE[tier].mod ELSE SHOOT_FIGHT_TABLE[1].mod
fightMod(tier) == IF tier \in 0..3 THEN SHOOT_FIGHT_TABLE[tier].mod ELSE SHOOT_FIGHT_TABLE[1].mod
clampMin(n, min) == IF n < min THEN min ELSE n

\* ------------------------------------------------- rule tables and roster
\* The rule tables are loaded from ./data/*.json; these are the records the
\* engine reads (name, damage, ap), indexed from 0 as in the data arrays.
\* apStar stands for the table value ap: "*".
NoIdx == -1
NoWeapon == [isNull |-> TRUE, name |-> "", damage |-> 0, ap |-> 0, apStar |-> FALSE]

data_shoot ==
  [i \in 0..1 |->
     IF i = 0 THEN [isNull |-> FALSE, name |-> "sniper rifle", damage |-> 4, ap |-> 1, apStar |-> FALSE]
     ELSE [isNull |-> FALSE, name |-> "sidearm", damage |-> 4, ap |-> 0, apStar |-> FALSE]]

data_fight ==
  [i \in 0..0 |-> [isNull |-> FALSE, name |-> "chainblade", damage |-> 4, ap |-> 2, apStar |-> FALSE]]

data_accessories ==
  [i \in 0..1 |-> IF i = 0 THEN [name |-> "targeting reticule"] ELSE [name |-> "cybernetics"]]

\* name.toLowerCase().includes(kw) for the names of the tables above
includes(name, kw) ==
  <<name, kw>> \in {<<"sniper rifle", "sniper">>, <<"sidearm", "sidearm">>}

Teams == {"Red", "Blue"}
RedModels == <<"r1">>
BlueModels == <<"b1", "b2">>

\* makeModel: the immutable part of each Unit
Roster ==
  [id \in {"r1", "b1", "b2"} |->
     CASE id = "r1" -> [team |-> "Red",
                        tiers |-> [defense |-> 1, will |-> 1, shoot |-> 1, fight |-> 1],
                        rangedIdx |-> 1, meleeIdx |-> 0, accessoryIdx |-> {}]
       [] id = "b1" -> [team |-> "Blue",
                        tiers |-> [defense |-> 1, will |-> 1, shoot |-> 1, fight |-> 1],
                        rangedIdx |-> 0, meleeIdx |-> 0, accessoryIdx |-> {}]
       [] id = "b2" -> [team |-> "Blue",
                        tiers |-> [defense |-> 1, will |-> 1, shoot |-> 1, fight |-> 1],
                        rangedIdx |-> NoIdx, meleeIdx |-> 0, accessoryIdx |-> {}]]

Ids == DOMAIN Roster

\* game.teams[team].models: the models of the team that have been made, in
\* roster order (S.units holds the Units made so far)
modelsByTeam(S, team) ==
  LET made(m) == m \in DOMAIN S.units
  IN SelectSeq(IF team = "Red" THEN RedModels ELSE BlueModels, made)
getAllModels(S) == modelsByTeam(S, "Red") \o modelsByTeam(S, "Blue")
enemyTeam(team) == IF team = "Red" THEN "Blue" ELSE "Red"
teamOf(id) == Roster[id].team
tiersOf(id) == Roster[id].tiers

armorClass(id) == 10 + defenseMod(tiersOf(id).defense)
saveTarget(id) == clampMin(SAVE_TARGET_BY_WILL[tiersOf(id).will], 10)
woundsMax(id) ==
  tiersOf(id).defense + tiersOf(id).shoot + tiersOf(id).fight + tiersOf(id).will

weaponByIdx(kind, idx) ==
  IF idx = NoIdx THEN NoWeapon
  ELSE IF kind = "ranged" THEN (IF idx \in DOMAIN data_shoot THEN data_shoot[idx] ELSE NoWeapon)
  ELSE IF kind = "melee" THEN (IF idx \in DOMAIN data_fight THEN data_fight[idx] ELSE NoWeapon)
  ELSE NoWeapon

hasAccessory(id, name) ==
  \E i \in Roster[id].accessoryIdx :
    i \in DOMAIN data_accessories /\ data_accessories[i].name = name

\* Array.prototype.find: the first of the elements that satisfy the
\* predicate (sel, in array order), or None
FirstOf(sel) == IF sel = <<>> THEN None ELSE sel[1]

\* ------------------------------------------------------------ unit helpers
\* S is the game record: units, round, activeTeam, pendingFirstPicker,
\* actionSelected, activeId, needsTargetClick.
horrorPenalty(S, id) == -(S.units[id].horrorTokens)

firstActivatableModel(S, team) ==
  LET ready(m) == ~S.units[m].dead /\ ~S.units[m].exhausted
  IN FirstOf(SelectSeq(modelsByTeam(S, team), ready))

\* mutant: a model taken out of action still fills its tile
isOccupiedByAnyone(S, tx, ty) ==
  \E m \in DOMAIN S.units :
    /\ S.units[m].deployed
    /\ S.units[m].tx = tx
    /\ S.units[m].ty = ty

isOccupied(S, tx, ty) ==
  \E m \in DOMAIN S.units :
    /\ ~S.units[m].dead
    /\ S.units[m].deployed
    /\ S.units[m].tx = tx
    /\ S.units[m].ty = ty

\* mutant: only the four orthogonal neighbours engage
engagedEnemiesOrthogonal(S, id) ==
  LET near(e) == /\ S.units[e].deployed
                 /\ ~S.units[e].dead
                 /\ Abs(S.units[id].tx - S.units[e].tx)
                    + Abs(S.units[id].ty - S.units[e].ty) <= 1
  IN SelectSeq(modelsByTeam(S, enemyTeam(teamOf(id))), near)

engagedEnemies(S, id) ==
  LET near(e) == /\ S.units[e].deployed
                 /\ ~S.units[e].dead
                 /\ chebDist(S.units[id].tx, S.units[id].ty, S.units[e].tx, S.units[e].ty) <= 1
  IN SelectSeq(modelsByTeam(S, enemyTeam(teamOf(id))), near)

isEngaged(S, id) ==
  IF ~S.units[id].deployed \/ S.units[id].dead THEN FALSE
  ELSE engagedEnemies(S, id) # <<>>

spendAction(S, id, n) ==
  [S EXCEPT !.units[id].actionsLeft = Max2(0, S.units[id].actionsLeft - n)]

\* result of a resolver: the game after it, its return value, and what it
\* rolled (dice = number of d20() calls it made; aim = aim bonus of the
\* to-hit roll of a Shoot, -1 without one; nat = 1 / 20 for a natural to-hit
\* roll, 0 otherwise; oa = an opportunity attack was rolled; ht = outcome of
\* the Horror Test it made, "none" without one; tp = terrain cover penalty
\* of the to-hit roll of a Shoot, 0 without one)
Res(S, ok) ==
  [S |-> S, ok |-> ok, dice |-> 0, aim |-> -1, nat |-> 0, oa |-> FALSE, ht |-> "none",
   tp |-> 0]
Tested(r) == [r EXCEPT !.dice = 1, !.ht = IF r.ok THEN "pass" ELSE "fail"]

\* mutant: the once-per-round latch is not consulted
horrorTestNoLatch(S, id, roll) ==
  LET total == roll + willMod(tiersOf(id).will) + horrorPenalty(S, id)
      target == saveTarget(id)
  IN IF total >= target THEN Tested(Res(S, TRUE))
     ELSE IF S.units[id].horrorTokens < MaxHorror
          THEN Tested(Res([S EXCEPT !.units[id].horrorTokens = @ + 1,
                                    !.units[id].horrorGainedThisRound = TRUE], FALSE))
          ELSE Tested(Res(S, FALSE))

horrorTest(S, id, roll) ==
  LET total == roll + willMod(tiersOf(id).will) + horrorPenalty(S, id)
      target == saveTarget(id)
  IN IF total >= target THEN Tested(Res(S, TRUE))
     ELSE IF ~S.units[id].horrorGainedThisRound /\ S.units[id].horrorTokens < MaxHorror
          THEN Tested(Res([S EXCEPT !.units[id].horrorTokens = @ + 1,
                                    !.units[id].horrorGainedThisRound = TRUE], FALSE))
          ELSE Tested(Res(S, FALSE))

\* mutant: being targeted does not Suppress
applySuppressedNever(S, target) == S

applySuppressed(S, target) ==
  IF ~S.units[target].suppressed
  THEN [S EXCEPT !.units[target].suppressed = TRUE]
  ELSE S

\* mutant: the thresholds are taken inclusively
computeRangePenaltyInclusive(S, attacker, target) ==
  LET tiles == chebDist(S.units[attacker].tx, S.units[attacker].ty,
                        S.units[target].tx, S.units[target].ty)
      meters2 == tilesToMeters2(tiles)
  IN IF meters2 >= 2 * 3 THEN -3
     ELSE IF meters2 >= 2 * 2 THEN -1
     ELSE 0

computeRangePenalty(S, attacker, target) ==
  LET tiles == chebDist(S.units[attacker].tx, S.units[attacker].ty,
                        S.units[target].tx, S.units[target].ty)
      meters2 == tilesToMeters2(tiles)
  IN IF meters2 > 2 * 3 THEN -3
     ELSE IF meters2 > 2 * 2 THEN -1
     ELSE 0

shootWeaponMods(S, attacker, target, weapon) ==
  LET name == weapon.name
      tiles == chebDist(S.units[attacker].tx, S.units[attacker].ty,
                        S.units[target].tx, S.units[target].ty)
      meters == (tilesToMeters2(tiles) + 1) \div 2
      zero == [toHitMod |-> 0, apMod |-> 0, dmgMod |-> 0, requiresAim |-> 0,
               blocksClose |-> FALSE, ignoreRangePenalty |-> FALSE]
  IN IF includes(name, "sidearm")
       THEN [zero EXCEPT !.toHitMod = IF tiles > 2 THEN -2 ELSE 0]
     ELSE IF includes(name, "energy pistol")
       THEN [zero EXCEPT !.toHitMod = IF tiles > 2 THEN -2 ELSE 0,
                         !.apMod = IF tiles <= 2 THEN -1 ELSE 0]
     ELSE IF includes(name, "shotgun")
       THEN [zero EXCEPT !.apMod = IF tiles <= 2 THEN -1 ELSE 0,
                         !.dmgMod = IF tiles <= 2 THEN 1 ELSE 0,
                         !.toHitMod = IF tiles > 2 THEN -2 * meters ELSE 0]
     ELSE IF includes(name, "sniper")
       THEN [zero EXCEPT !.requiresAim = 2, !.blocksClose = TRUE,
                         !.ignoreRangePenalty = TRUE]
     ELSE IF includes(name, "rocket")
       THEN [zero EXCEPT !.requiresAim = 2, !.blocksClose = TRUE]
     ELSE zero

applyDamage(S, target, dmg) ==
  LET w == S.units[target].wounds - dmg
  IN IF w <= 0
     THEN LET S1 == [S EXCEPT !.units[target].wounds = 0,
                              !.units[target].dead = TRUE]
          IN IF S1.activeId = target
             THEN [S1 EXCEPT !.activeId = None,
                             !.actionSelected = None,
                             !.needsTargetClick = FALSE]
             ELSE S1
     ELSE [S EXCEPT !.units[target].wounds = w]

\* --------------------------------------------------------------- resolvers
\* doShoot: the terrain cover penalty of the to-hit roll
terrainPenaltyOf(cover) ==
  IF cover = "heavy" THEN -3 ELSE IF cover = "light" THEN -1 ELSE 0

\* doShoot from the to-hit roll on: S2 is the game with the target Suppressed
\* and the attacker's aim spent, total the to-hit total, dmg and ap those of
\* the weapon with its modifiers
shootRoll(S2, target, cover, aimBonus, total, dmg0, ap, roll, sroll) ==
  LET nat20 == roll = 20
      nat1 == roll = 1
      hit == IF nat20 THEN TRUE ELSE total >= armorClass(target)
      dmg == dmg0 + (IF nat20 THEN 1 ELSE 0)
      effSave == clampMin(saveTarget(target) - ap, 10)
      stotal == sroll + willMod(tiersOf(target).will) + horrorPenalty(S2, target)
      out(G, n) == [S |-> G, ok |-> TRUE, dice |-> n, aim |-> aimBonus,
                    nat |-> IF nat20 THEN 20 ELSE IF nat1 THEN 1 ELSE 0,
                    oa |-> FALSE, ht |-> "none", tp |-> terrainPenaltyOf(cover)]
  IN IF nat1 THEN out(S2, 1)
     ELSE IF ~hit THEN out(S2, 1)
     ELSE IF nat20 /\ cover # "heavy" THEN out(applyDamage(S2, target, dmg), 1)
     ELSE IF stotal >= effSave THEN out(S2, 2)
     ELSE out(applyDamage(S2, target, dmg), 2)

\* mutant: the second Aim is worth one more point, not two
aimBonusLinear(aimedCount) == aimedCount

\* doShoot: the aim bonus of the attacker's aim count
aimBonusOf(aimedCount) ==
  IF aimedCount = 0 THEN 0 ELSE IF aimedCount = 1 THEN 1 ELSE 3

\* doShoot once the target has been Suppressed (S1): modifiers, the weapon's
\* restrictions, then the roll
shootAimed(S1, attacker, target, cover, weapon, wmods, roll, sroll) ==
  LET a == S1.units[attacker]
      t == S1.units[target]
      aimBonus == aimBonusOf(a.aimedCount)
      baseShoot == shootMod(tiersOf(attacker).shoot)
      horrorMod == horrorPenalty(S1, attacker)
      gearMod == IF hasAccessory(attacker, "targeting reticule") THEN 1 ELSE 0
      terrainPenalty == terrainPenaltyOf(cover)
      rangePenalty == IF wmods.ignoreRangePenalty THEN 0
                      ELSE computeRangePenalty(S1, attacker, target)
      tiles == chebDist(a.tx, a.ty, t.tx, t.ty)
      total == roll + baseShoot + aimBonus + gearMod + horrorMod
               + terrainPenalty + rangePenalty + wmods.toHitMod
  IN IF wmods.blocksClose /\ tiles <= 2 THEN Res(S1, FALSE)
     ELSE IF wmods.requiresAim > 0 /\ a.aimedCount < wmods.requiresAim THEN Res(S1, FALSE)
     ELSE shootRoll([S1 EXCEPT !.units[attacker].aimedCount = 0], target, cover,
                    aimBonus, total, weapon.damage + wmods.dmgMod,
                    (IF weapon.apStar THEN 0 ELSE weapon.ap) + wmods.apMod, roll, sroll)

\* doShoot with the line of sight li already traced
shootAlong(S, attacker, target, li, weapon, roll, sroll) ==
  IF ~li.hasLoS THEN Res(S, FALSE)
  ELSE IF isEngaged(S, attacker) THEN Res(S, FALSE)
  ELSE shootAimed(applySuppressed(S, target), attacker, target, li.cover, weapon,
                  shootWeaponMods(S, attacker, target, weapon), roll, sroll)

doShoot(S, attacker, target, roll, sroll) ==
  shootAlong(S, attacker, target,
             losInfo(S.units[attacker].tx, S.units[attacker].ty,
                     S.units[target].tx, S.units[target].ty, board),
             weaponByIdx("ranged", Roster[attacker].rangedIdx), roll, sroll)

\* mutant: a natural 20 denies the saving throw
fightRollCritNoSave(S, target, total, weapon, roll, sroll) ==
  LET nat20 == roll = 20
      nat1 == roll = 1
      hit == IF nat20 THEN TRUE ELSE total >= armorClass(target)
      dmg == (IF weapon.damage = 0 THEN 1 ELSE weapon.damage)
             + (IF nat20 THEN 1 ELSE 0)
      ap == IF weapon.apStar THEN 0 ELSE weapon.ap
      effSave == clampMin(saveTarget(target) - ap, 10)
      stotal == sroll + willMod(tiersOf(target).will) + horrorPenalty(S, target)
      out(G, n) == [S |-> G, ok |-> TRUE, dice |-> n, aim |-> -1,
                    nat |-> IF nat20 THEN 20 ELSE IF nat1 THEN 1 ELSE 0,
                    oa |-> FALSE, ht |-> "none", tp |-> 0]
  IN IF nat1 THEN out(S, 1)
     ELSE IF ~hit THEN out(S, 1)
     ELSE IF nat20 THEN out(applyDamage(S, target, dmg), 1)
     ELSE IF stotal >= effSave THEN out(S, 2)
     ELSE out(applyDamage(S, target, dmg), 2)

\* mutant: a natural 1 is an ordinary roll
fightRollPlainOne(S, target, total, weapon, roll, sroll) ==
  LET nat20 == roll = 20
      hit == IF nat20 THEN TRUE ELSE total >= armorClass(target)
      dmg == (IF weapon.damage = 0 THEN 1 ELSE weapon.damage)
             + (IF nat20 THEN 1 ELSE 0)
      ap == IF weapon.apStar THEN 0 ELSE weapon.ap
      effSave == clampMin(saveTarget(target) - ap, 10)
      stotal == sroll + willMod(tiersOf(target).will) + horrorPenalty(S, target)
      out(G, n) == [S |-> G, ok |-> TRUE, dice |-> n, aim |-> -1,
                    nat |-> IF nat20 THEN 20 ELSE IF roll = 1 THEN 1 ELSE 0,
                    oa |-> FALSE, ht |-> "none", tp |-> 0]
  IN IF ~hit THEN out(S, 1)
     ELSE IF stotal >= effSave THEN out(S, 2)
     ELSE out(applyDamage(S, target, dmg), 2)

\* doFight from the to-hit roll on: total is the to-hit total
fightRoll(S, target, total, weapon, roll, sroll) ==
  LET ac == armorClass(target)
      nat20 == roll = 20
      nat1 == roll = 1
      hit == IF nat20 THEN TRUE ELSE total >= ac
      dmg == (IF weapon.damage = 0 THEN 1 ELSE weapon.damage)
             + (IF nat20 THEN 1 ELSE 0)
      ap == IF weapon.apStar THEN 0 ELSE weapon.ap
      effSave == clampMin(saveTarget(target) - ap, 10)
      stotal == sroll + willMod(tiersOf(target).will) + horrorPenalty(S, target)
      out(G, n) == [S |-> G, ok |-> TRUE, dice |-> n, aim |-> -1,
                    nat |-> IF nat20 THEN 20 ELSE IF nat1 THEN 1 ELSE 0,
                    oa |-> FALSE, ht |-> "none", tp |-> 0]
  IN IF nat1 THEN out(S, 1)
     ELSE IF ~hit THEN out(S, 1)
     ELSE IF stotal >= effSave THEN out(S, 2)
     ELSE out(applyDamage(S, target, dmg), 2)

doFight(S, attacker, target, roll, sroll) ==
  LET a == S.units[attacker]
      t == S.units[target]
  IN IF chebDist(a.tx, a.ty, t.tx, t.ty) > 1 THEN Res(S, FALSE)
     ELSE
       LET weapon == weaponByIdx("melee", Roster[attacker].meleeIdx)
           baseFight == fightMod(tiersOf(attacker).fight)
           horrorMod == horrorPenalty(S, attacker)
           gearMod == IF hasAccessory(attacker, "cybernetics") THEN 1 ELSE 0
           total == roll + baseFight + gearMod + horrorMod
       IN fightRoll(S, target, total, weapon, roll, sroll)

\* mutant: a Blocking tile can be entered
canMoveToAnyTile(S, nx, ny) ==
  IF ~withinGrid(nx, ny) THEN FALSE
  ELSE ~isOccupied(S, nx, ny)

canMoveTo(S, nx, ny) ==
  IF ~withinGrid(nx, ny) THEN FALSE
  ELSE IF board[ny][nx] = TILE_BLOCK THEN FALSE
  ELSE ~isOccupied(S, nx, ny)

\* mutant: the distance of the destination is not looked at
moveAnyDistance(ht, model, nx, ny) ==
  IF ~ht.ok THEN ht
  ELSE IF ~canMoveTo(ht.S, nx, ny) THEN [ht EXCEPT !.ok = FALSE]
  ELSE [ht EXCEPT !.S.units[model].tx = nx, !.S.units[model].ty = ny]

\* doMove after the Horror Test ht of a Suppressed model (passed outright
\* without a roll when the model is not Suppressed)
moveAfterTest(ht, model, nx, ny) ==
  LET dist == chebDist(ht.S.units[model].tx, ht.S.units[model].ty, nx, ny)
  IN IF ~ht.ok THEN ht
     ELSE IF dist > MovePerAction THEN [ht EXCEPT !.ok = FALSE]
     ELSE IF ~canMoveTo(ht.S, nx, ny) THEN [ht EXCEPT !.ok = FALSE]
     ELSE [ht EXCEPT !.S.units[model].tx = nx, !.S.units[model].ty = ny]

doMove(S, model, nx, ny, roll) ==
  moveAfterTest(IF S.units[model].suppressed THEN horrorTest(S, model, roll)
                ELSE Res(S, TRUE),
                model, nx, ny)

\* mutant: the deployment band is not looked at
deployOnEdgeAnyColumn(S, model, nx, ny) ==
  IF ~withinGrid(nx, ny) THEN Res(S, FALSE)
  ELSE IF board[ny][nx] = TILE_BLOCK THEN Res(S, FALSE)
  ELSE IF isOccupied(S, nx, ny) THEN Res(S, FALSE)
  ELSE Res([S EXCEPT !.units[model].tx = nx,
                     !.units[model].ty = ny,
                     !.units[model].deployed = TRUE], TRUE)

deployOnEdge(S, model, nx, ny) ==
  IF teamOf(model) = "Blue" /\ nx >= EdgeWidth THEN Res(S, FALSE)
  ELSE IF teamOf(model) # "Blue" /\ nx < GRID_W - EdgeWidth THEN Res(S, FALSE)
  ELSE IF ~withinGrid(nx, ny) THEN Res(S, FALSE)
  ELSE IF board[ny][nx] = TILE_BLOCK THEN Res(S, FALSE)
  ELSE IF isOccupied(S, nx, ny) THEN Res(S, FALSE)
  ELSE Res([S EXCEPT !.units[model].tx = nx,
                     !.units[model].ty = ny,
                     !.units[model].deployed = TRUE], TRUE)

\* the eight neighbour offsets in the order of the nested oy / ox loops
AdjOrder ==
  << <<-1, -1>>, <<0, -1>>, <<1, -1>>, <<-1, 0>>, <<1, 0>>, <<-1, 1>>, <<0, 1>>, <<1, 1>> >>

\* doCharge: the defender's Horror Test ht and the penalty of failing it
chargeShock(ht, target) ==
  IF ~ht.ok
  THEN [ht EXCEPT !.ok = TRUE, !.S.units[target].nextActActionPenalty = Max2(@, 1)]
  ELSE ht

\* doCharge with the reachable adjacent tiles adj ({nx, ny, d} in scan
\* order): the nearest, the first of them in scan order (stable sort)
chargeInto(S, attacker, target, adj, roll) ==
  IF adj = <<>> THEN Res(S, FALSE)
  ELSE
    LET best(c) == \A i \in 1..Len(adj) : c.d <= adj[i].d
        dest == FirstOf(SelectSeq(adj, best))
    IN chargeShock(horrorTest([S EXCEPT !.units[attacker].tx = dest.nx,
                                        !.units[attacker].ty = dest.ny],
                              target, roll),
                   target)

\* mutant: the adjacent tile may be any distance away
doChargeAnyDistance(S, attacker, target, roll) ==
  IF ~S.units[target].deployed \/ S.units[target].dead THEN Res(S, FALSE)
  ELSE
    LET a == S.units[attacker]
        t == S.units[target]
        tile(i) == [nx |-> t.tx + AdjOrder[i][1], ny |-> t.ty + AdjOrder[i][2],
                    d |-> chebDist(a.tx, a.ty, t.tx + AdjOrder[i][1], t.ty + AdjOrder[i][2])]
        reach(c) == withinGrid(c.nx, c.ny) /\ canMoveTo(S, c.nx, c.ny)
    IN chargeInto(S, attacker, target,
                  SelectSeq([i \in 1..Len(AdjOrder) |-> tile(i)], reach), roll)

doCharge(S, attacker, target, roll) ==
  IF ~S.units[target].deployed \/ S.units[target].dead THEN Res(S, FALSE)
  ELSE
    LET a == S.units[attacker]
        t == S.units[target]
        tile(i) == [nx |-> t.tx + AdjOrder[i][1], ny |-> t.ty + AdjOrder[i][2],
                    d |-> chebDist(a.tx, a.ty, t.tx + AdjOrder[i][1], t.ty + AdjOrder[i][2])]
        reach(c) == withinGrid(c.nx, c.ny) /\ canMoveTo(S, c.nx, c.ny) /\ c.d <= MovePerAction
    IN chargeInto(S, attacker, target,
                  SelectSeq([i \in 1..Len(AdjOrder) |-> tile(i)], reach), roll)

\* doDisengage: the relocation after the opportunity attack f
disengageTo(f, model, nx, ny) ==
  [f EXCEPT !.S.units[model].tx = nx, !.S.units[model].ty = ny, !.ok = TRUE,
            !.aim = -1, !.oa = TRUE]

\* mutant: the opportunity attack exhausts the enemy that makes it
disengageFromTiring(S, model, enemies, nx, ny, roll, sroll) ==
  IF enemies = <<>> THEN Res(S, FALSE)
  ELSE IF chebDist(S.units[model].tx, S.units[model].ty, nx, ny) > MovePerAction
    THEN Res(S, FALSE)
  ELSE IF ~canMoveTo(S, nx, ny) THEN Res(S, FALSE)
  ELSE IF \E i \in 1..Len(enemies) :
            chebDist(nx, ny, S.units[enemies[i]].tx, S.units[enemies[i]].ty) <= 1
    THEN Res(S, FALSE)
  ELSE disengageTo(doFight([S EXCEPT !.units[enemies[1]].exhausted = TRUE],
                           enemies[1], model, roll, sroll),
                   model, nx, ny)

\* doDisengage with the engaged enemies already found
disengageFrom(S, model, enemies, nx, ny, roll, sroll) ==
  IF enemies = <<>> THEN Res(S, FALSE)
  ELSE IF chebDist(S.units[model].tx, S.units[model].ty, nx, ny) > MovePerAction
    THEN Res(S, FALSE)
  ELSE IF ~canMoveTo(S, nx, ny) THEN Res(S, FALSE)
  ELSE IF \E i \in 1..Len(enemies) :
            chebDist(nx, ny, S.units[enemies[i]].tx, S.units[enemies[i]].ty) <= 1
    THEN Res(S, FALSE)
  ELSE disengageTo(doFight(S, enemies[1], model, roll, sroll), model, nx, ny)

doDisengage(S, model, nx, ny, roll, sroll) ==
  disengageFrom(S, model, engagedEnemies(S, model), nx, ny, roll, sroll)

\* mutant: a Recover that removes a token clears Suppressed as well
doRecoverBoth(S, model) ==
  IF S.units[model].horrorTokens > 0
  THEN Res([S EXCEPT !.units[model].horrorTokens = @ - 1,
                     !.units[model].suppressed = FALSE], TRUE)
  ELSE IF S.units[model].suppressed
  THEN Res([S EXCEPT !.units[model].suppressed = FALSE], TRUE)
  ELSE Res(S, TRUE)

doRecover(S, model) ==
  IF S.units[model].horrorTokens > 0
  THEN Res([S EXCEPT !.units[model].horrorTokens = @ - 1], TRUE)
  ELSE IF S.units[model].suppressed
  THEN Res([S EXCEPT !.units[model].suppressed = FALSE], TRUE)
  ELSE Res(S, TRUE)

\* mutant: the aim count is not capped
doAimUncapped(S, model) ==
  Res([S EXCEPT !.units[model].aimedCount = @ + 1], TRUE)

doAim(S, model) ==
  Res([S EXCEPT !.units[model].aimedCount = Min2(MaxAim, @ + 1)], TRUE)

\* ------------------------------------------- initiative, rounds, activation
teamInitiativeBonus(S, team) ==
  LET living == {m \in DOMAIN S.units : teamOf(m) = team /\ ~S.units[m].dead}
  IN IF living = {} THEN 0
     ELSE CHOOSE b \in {willMod(tiersOf(m).will) : m \in living} :
            \A m \in living : willMod(tiersOf(m).will) <= b

\* the pairs of dice on which rollInitiative stops re-rolling
NonTied(S) ==
  {p \in D20 \X D20 :
     p[1] + teamInitiativeBonus(S, "Red") # p[2] + teamInitiativeBonus(S, "Blue")}

\* rollInitiative with the dice of its last (untied) roll; tied rolls recurse
\* and leave nothing behind but game.initiative, which is overwritten
rollInitiative(S, rDie, bDie) ==
  LET rRoll == rDie + teamInitiativeBonus(S, "Red")
      bRoll == bDie + teamInitiativeBonus(S, "Blue")
      winner == IF rRoll > bRoll THEN "Red" ELSE "Blue"
  IN [S EXCEPT !.pendingFirstPicker = winner, !.activeTeam = winner]

\* mutant: the round start lifts suppression too
startRoundLiftsSuppression(S, rDie, bDie) ==
  LET S1 == [S EXCEPT
               !.round = @ + 1,
               !.units = [m \in DOMAIN S.units |->
                            IF S.units[m].dead THEN S.units[m]
                            ELSE [S.units[m] EXCEPT !.exhausted = FALSE,
                                                    !.suppressed = FALSE,
                                                    !.horrorGainedThisRound = FALSE,
                                                    !.aimedCount = 0]],
               !.activeId = None,
               !.actionSelected = None,
               !.needsTargetClick = FALSE]
  IN rollInitiative(S1, rDie, bDie)

startRound(S, rDie, bDie) ==
  LET S1 == [S EXCEPT
               !.round = @ + 1,
               !.units = [m \in DOMAIN S.units |->
                            IF S.units[m].dead THEN S.units[m]
                            ELSE [S.units[m] EXCEPT !.exhausted = FALSE,
                                                    !.horrorGainedThisRound = FALSE,
                                                    !.aimedCount = 0]],
               !.activeId = None,
               !.actionSelected = None,
               !.needsTargetClick = FALSE]
  IN rollInitiative(S1, rDie, bDie)

hasReady(S, team) ==
  \E m \in DOMAIN S.units :
    teamOf(m) = team /\ ~S.units[m].dead /\ ~S.units[m].exhausted

\* mutant: the round is not restarted when nobody is left to activate
endActivationNoRollover(S, rDie, bDie) ==
  IF S.activeId = None THEN S
  ELSE
    LET active == S.activeId
        S1 == [S EXCEPT !.units[active].exhausted = TRUE,
                        !.units[active].actionsLeft = 0,
                        !.units[active].aimedCount = 0,
                        !.activeId = None,
                        !.actionSelected = None,
                        !.needsTargetClick = FALSE]
        nextTeam == enemyTeam(S1.activeTeam)
    IN IF hasReady(S1, nextTeam) THEN [S1 EXCEPT !.activeTeam = nextTeam] ELSE S1

\* mutant: the model that ends its activation is not marked exhausted
endActivationKeepsReady(S, rDie, bDie) ==
  IF S.activeId = None THEN S
  ELSE
    LET active == S.activeId
        S1 == [S EXCEPT !.units[active].actionsLeft = 0,
                        !.units[active].aimedCount = 0,
                        !.activeId = None,
                        !.actionSelected = None,
                        !.needsTargetClick = FALSE]
        nextTeam == enemyTeam(S1.activeTeam)
    IN IF hasReady(S1, nextTeam) THEN [S1 EXCEPT !.activeTeam = nextTeam]
       ELSE IF hasReady(S1, S1.activeTeam) THEN S1
       ELSE startRound(S1, rDie, bDie)

\* mutant: the model that ends its activation stays the active model
endActivationKeepsActive(S, rDie, bDie) ==
  IF S.activeId = None THEN S
  ELSE
    LET active == S.activeId
        S1 == [S EXCEPT !.units[active].exhausted = TRUE,
                        !.units[active].actionsLeft = 0,
                        !.units[active].aimedCount = 0,
                        !.actionSelected = None,
                        !.needsTargetClick = FALSE]
        nextTeam == enemyTeam(S1.activeTeam)
        nextHas == hasReady(S1, nextTeam)
        curHas == hasReady(S1, S1.activeTeam)
    IN IF nextHas THEN [S1 EXCEPT !.activeTeam = nextTeam]
       ELSE IF curHas THEN S1
       ELSE startRound(S1, rDie, bDie)

endActivation(S, rDie, bDie) ==
  IF S.activeId = None THEN S
  ELSE
    LET active == S.activeId
        S1 == [S EXCEPT !.units[active].exhausted = TRUE,
                        !.units[active].actionsLeft = 0,
                        !.units[active].aimedCount = 0,
                        !.activeId = None,
                        !.actionSelected = None,
                        !.needsTargetClick = FALSE]
        nextTeam == enemyTeam(S1.activeTeam)
        nextHas == hasReady(S1, nextTeam)
        curHas == hasReady(S1, S1.activeTeam)
    IN IF nextHas THEN [S1 EXCEPT !.activeTeam = nextTeam]
       ELSE IF curHas THEN S1
       ELSE startRound(S1, rDie, bDie)

\* mutant: the pending penalty is applied but not cleared
beginActivationKeepsPenalty(S, model) ==
  IF S.units[model].dead THEN Res(S, FALSE)
  ELSE IF S.units[model].exhausted THEN Res(S, FALSE)
  ELSE IF teamOf(model) # S.activeTeam THEN Res(S, FALSE)
  ELSE
    LET penalty == S.units[model].nextActActionPenalty
    IN Res([S EXCEPT !.activeId = model,
                     !.units[model].aimedCount = 0,
                     !.units[model].actionsLeft = Max2(1, BaseActions - penalty)], TRUE)

beginActivation(S, model) ==
  IF S.units[model].dead THEN Res(S, FALSE)
  ELSE IF S.units[model].exhausted THEN Res(S, FALSE)
  ELSE IF teamOf(model) # S.activeTeam THEN Res(S, FALSE)
  ELSE
    LET penalty == S.units[model].nextActActionPenalty
    IN Res([S EXCEPT !.activeId = model,
                     !.units[model].aimedCount = 0,
                     !.units[model].nextActActionPenalty = 0,
                     !.units[model].actionsLeft = Max2(1, BaseActions - penalty)], TRUE)

allExhausted(S, team) ==
  \A m \in DOMAIN S.units :
    (teamOf(m) = team /\ ~S.units[m].dead) => S.units[m].exhausted

checkRoundEnd(S, rDie, bDie) ==
  IF allExhausted(S, "Red") /\ allExhausted(S, "Blue")
  THEN startRound(S, rDie, bDie)
  ELSE S

\* ------------------------------------------------------------- UI handlers
\* what a handler did: res is "selected" / "refused" for an action button,
\* "began" (activation started), "ignored" (returned before any resolver),
\* "deployed", "resolved" (resolver returned true, one action spent) or
\* "rejected" (resolver or deployment returned false) for a canvas click,
\* "ended" / "round" for the two round buttons.
Out(S, res, r) ==
  [S |-> S, res |-> res, tgt |-> r.tgt, dice |-> r.dice, aim |-> r.aim,
   nat |-> r.nat, oa |-> r.oa, ht |-> r.ht]
NoRoll == [tgt |-> None, dice |-> 0, aim |-> -1, nat |-> 0, oa |-> FALSE, ht |-> "none"]

\* mutant: the remaining actions are not checked
setActionNoBudget(S, action) ==
  IF action \notin ActionKinds THEN Out(S, "refused", NoRoll)
  ELSE
    LET next == firstActivatableModel(S, S.activeTeam)
        auto == S.activeId = None
        S1 == IF auto /\ next # None THEN beginActivation(S, next).S ELSE S
        active == IF auto THEN next ELSE S.activeId
    IN IF active = None THEN Out(S, "refused", NoRoll)
       ELSE IF teamOf(active) # S1.activeTeam THEN Out(S1, "refused", NoRoll)
       ELSE IF S1.units[active].exhausted THEN Out(S1, "refused", NoRoll)
       ELSE IF action = "Aim" /\ S1.units[active].suppressed THEN Out(S1, "refused", NoRoll)
       ELSE IF action = "Shoot" /\ isEngaged(S1, active) THEN Out(S1, "refused", NoRoll)
       ELSE Out([S1 EXCEPT !.actionSelected = action, !.needsTargetClick = TRUE],
                "selected", NoRoll)

\* mutant: a Suppressed model may select Aim
setActionAimAnyway(S, action) ==
  IF action \notin ActionKinds THEN Out(S, "refused", NoRoll)
  ELSE
    LET next == firstActivatableModel(S, S.activeTeam)
        auto == S.activeId = None
        S1 == IF auto /\ next # None THEN beginActivation(S, next).S ELSE S
        active == IF auto THEN next ELSE S.activeId
    IN IF active = None THEN Out(S, "refused", NoRoll)
       ELSE IF teamOf(active) # S1.activeTeam THEN Out(S1, "refused", NoRoll)
       ELSE IF S1.units[active].exhausted THEN Out(S1, "refused", NoRoll)
       ELSE IF S1.units[active].actionsLeft <= 0 THEN Out(S1, "refused", NoRoll)
       ELSE IF action = "Shoot" /\ isEngaged(S1, active) THEN Out(S1, "refused", NoRoll)
       ELSE Out([S1 EXCEPT !.actionSelected = action, !.needsTargetClick = TRUE],
                "selected", NoRoll)

setAction(S, action) ==
  IF action \notin ActionKinds THEN Out(S, "refused", NoRoll)
  ELSE
    LET next == firstActivatableModel(S, S.activeTeam)
        auto == S.activeId = None
        S1 == IF auto /\ next # None THEN beginActivation(S, next).S ELSE S
        active == IF auto THEN next ELSE S.activeId
    IN IF active = None THEN Out(S, "refused", NoRoll)
       ELSE IF teamOf(active) # S1.activeTeam THEN Out(S1, "refused", NoRoll)
       ELSE IF S1.units[active].exhausted THEN Out(S1, "refused", NoRoll)
       ELSE IF S1.units[active].actionsLeft <= 0 THEN Out(S1, "refused", NoRoll)
       ELSE IF action = "Aim" /\ S1.units[active].suppressed THEN Out(S1, "refused", NoRoll)
       ELSE IF action = "Shoot" /\ isEngaged(S1, active) THEN Out(S1, "refused", NoRoll)
       ELSE Out([S1 EXCEPT !.actionSelected = action, !.needsTargetClick = TRUE],
                "selected", NoRoll)

\* the living deployed model standing on a tile (getAllModels().find)
modelAt(S, tx, ty) ==
  LET here(m) == ~S.units[m].dead /\ S.units[m].deployed
                 /\ S.units[m].tx = tx /\ S.units[m].ty = ty
  IN FirstOf(SelectSeq(getAllModels(S), here))

enemyAt(S, active, tx, ty) ==
  LET here(m) == ~S.units[m].dead /\ S.units[m].deployed
                 /\ S.units[m].tx = tx /\ S.units[m].ty = ty
                 /\ teamOf(m) # teamOf(active)
  IN FirstOf(SelectSeq(getAllModels(S), here))

\* resolveBoardClick: the resolver of the selected action
resolveAction(S, active, action, target, tx, ty, roll, sroll) ==
  CASE action = "Move" -> doMove(S, active, tx, ty, roll)
    [] action = "Disengage" -> doDisengage(S, active, tx, ty, roll, sroll)
    [] action = "Charge" -> doCharge(S, active, target, roll)
    [] action = "Shoot" -> doShoot(S, active, target, roll, sroll)
    [] action = "Fight" -> doFight(S, active, target, roll, sroll)
    [] action = "Recover" -> doRecover(S, active)
    [] action = "Aim" -> doAim(S, active)

\* resolveBoardClick: if (active.dead) game.activeId = null
clearDeadActive(S, active) ==
  IF S.units[active].dead THEN [S EXCEPT !.activeId = None] ELSE S

\* resolveBoardClick after the resolver has returned r
afterResolver(S, active, tgt, r, rDie, bDie) ==
  LET info == [tgt |-> tgt, dice |-> r.dice, aim |-> r.aim, nat |-> r.nat, oa |-> r.oa,
               ht |-> r.ht]
  IN IF ~r.ok THEN Out(r.S, "rejected", info)
     ELSE Out(checkRoundEnd(
                clearDeadActive([spendAction(r.S, active, 1) EXCEPT
                                   !.actionSelected = None,
                                   !.needsTargetClick = FALSE], active),
                rDie, bDie),
              "resolved", info)

\* resolveBoardClick: the deployment click of a model not yet on the board
deployClick(S, active, d) ==
  IF ~d.ok THEN Out(S, "rejected", NoRoll)
  ELSE Out([spendAction(d.S, active, 1) EXCEPT
              !.needsTargetClick = FALSE, !.actionSelected = None],
           "deployed", NoRoll)

resolveBoardClick(S, tx, ty, roll, sroll, rDie, bDie) ==
  LET active == S.activeId
      action == S.actionSelected
      needsTarget == action \in {"Charge", "Shoot", "Fight"}
      target == IF needsTarget THEN enemyAt(S, active, tx, ty) ELSE None
  IN IF active = None THEN Out(S, "ignored", NoRoll)
     ELSE IF teamOf(active) # S.activeTeam THEN Out(S, "ignored", NoRoll)
     ELSE IF S.units[active].exhausted THEN Out(S, "ignored", NoRoll)
     ELSE IF action = None THEN Out(S, "ignored", NoRoll)
     ELSE IF S.units[active].actionsLeft <= 0 THEN Out(S, "ignored", NoRoll)
     ELSE IF ~S.units[active].deployed
       THEN deployClick(S, active, deployOnEdge(S, active, tx, ty))
     ELSE IF needsTarget /\ target = None THEN Out(S, "ignored", NoRoll)
     ELSE afterResolver(S, active, target,
                        resolveAction(S, active, action, target, tx, ty, roll, sroll),
                        rDie, bDie)

\* canvas click listener: a click on an enemy while Shoot, Fight or Charge is
\* selected, or on a tile without a model, goes to resolveBoardClick; a click
\* on any other model tries to begin its activation
canvasClick(S, tx, ty, roll, sroll, rDie, bDie) ==
  LET clickedModel == IF withinGrid(tx, ty) THEN modelAt(S, tx, ty) ELSE None
      active == S.activeId
      asTarget == /\ clickedModel # None
                  /\ active # None
                  /\ S.actionSelected \in {"Shoot", "Fight", "Charge"}
                  /\ teamOf(clickedModel) # teamOf(active)
  IN IF ~withinGrid(tx, ty) THEN Out(S, "ignored", NoRoll)
     ELSE IF clickedModel # None /\ ~asTarget
       THEN IF active # None THEN Out(S, "ignored", NoRoll)
            ELSE IF teamOf(clickedModel) # S.activeTeam THEN Out(S, "ignored", NoRoll)
            ELSE IF S.units[clickedModel].exhausted THEN Out(S, "ignored", NoRoll)
            ELSE Out(beginActivation(S, clickedModel).S, "began", NoRoll)
     ELSE resolveBoardClick(S, tx, ty, roll, sroll, rDie, bDie)

\* ------------------------------------------------------------------- state
VARIABLES
  units,               \* id -> mutable fields of the Unit
  round,               \* game.round
  activeTeam,          \* game.activeTeam
  pendingFirstPicker,  \* game.pendingFirstPicker
  actionSelected,      \* game.actionSelected
  activeId,            \* game.activeId
  needsTargetClick,    \* game.needsTargetClick
  ev,                  \* history: what the last handler did
  hist,                \* history: the last resolved actions of the activation
  hgain,               \* history: Horror tokens gained by each Unit this round
  acts,                \* history: activations begun by each Unit this round
  prevTeam,            \* history: team of the last activation begun this round
  steps,               \* history: requests handled so far (bounded by MaxSteps)
  probe,               \* a pure function's arguments and, once applied, its value
  load,                \* boot: "loading" until loadAllData settles, then "loaded" or "failed"
  sim                  \* the Game object of the documentation site and its call stack

gameVars == <<units, round, activeTeam, pendingFirstPicker, actionSelected,
              activeId, needsTargetClick>>
vars == <<units, round, activeTeam, pendingFirstPicker, actionSelected,
          activeId, needsTargetClick, ev, hist, hgain, acts, prevTeam, steps,
          probe, load, sim>>

St == [units |-> units, round |-> round, activeTeam |-> activeTeam,
       pendingFirstPicker |-> pendingFirstPicker, actionSelected |-> actionSelected,
       activeId |-> activeId, needsTargetClick |-> needsTargetClick]

\* The initiative dice are rolled only by a handler that starts a round.
\* rollInitiative keeps nothing of the dice but the winner, so one untied
\* pair of dice per possible winner stands for all of them: the pair most
\* favourable to that team.
InitiativeRolls(G) ==
  LET rb == teamInitiativeBonus(G, "Red")
      bb == teamInitiativeBonus(G, "Blue")
  IN {p \in {<<20, 1>>, <<1, 20>>} : p[1] + rb # p[2] + bb}

\* makeModel followed by hardResetAfterRosterChange
freshUnit(id) ==
  [deployed |-> FALSE, tx |-> 0, ty |-> 0, wounds |-> woundsMax(id), dead |-> FALSE,
   exhausted |-> FALSE, suppressed |-> FALSE, horrorTokens |-> 0,
   horrorGainedThisRound |-> FALSE, nextActActionPenalty |-> 0,
   actionsLeft |-> 0, aimedCount |-> 0]

\* hardResetAfterRosterChange: round = 0, then startRound
hardReset ==
  [units |-> [id \in Ids |-> freshUnit(id)], round |-> 0, activeTeam |-> None,
   pendingFirstPicker |-> None, actionSelected |-> None, activeId |-> None,
   needsTargetClick |-> FALSE]

\* no function is being probed while the game is played
NoProbe == [fn |-> None, arg |-> <<>>, val |-> <<>>]

\* no Game of the documentation site has been constructed
NoSim ==
  [units |-> <<>>, round |-> 0, activationTeamIndex |-> 0, activeUnitId |-> 0,
   stack |-> <<>>, thrown |-> FALSE, entry |-> 0]

InstallGame(G) ==
  /\ units = G.units
  /\ round = G.round
  /\ activeTeam = G.activeTeam
  /\ pendingFirstPicker = G.pendingFirstPicker
  /\ actionSelected = G.actionSelected
  /\ activeId = G.activeId
  /\ needsTargetClick = G.needsTargetClick
  /\ ev = [op |-> "boot", res |-> "round", tgt |-> None, dice |-> 0, aim |-> -1,
           nat |-> 0, oa |-> FALSE, ht |-> "none", gain |-> FALSE]
  /\ hist = <<>>
  /\ hgain = [id \in Ids |-> 0]
  /\ acts = [id \in Ids |-> 0]
  /\ prevTeam = None
  /\ steps = 0

Install(G) == InstallGame(G) /\ probe = NoProbe /\ load = "loaded" /\ sim = NoSim

\* the game as boot leaves it: random warbands, round 1, nobody deployed
InitFresh ==
  \E p \in InitiativeRolls(hardReset) : Install(startRound(hardReset, p[1], p[2]))

\* A later round start of the same game, played on from in the model because
\* MaxSteps requests do not reach it from boot: round MidRound has just
\* ended, r1 holds MaxHorror Horror tokens from failed Horror Tests and was
\* charged after its last activation (the penalty of the failed test is
\* still pending), b2 was shot at and is still Suppressed, nobody was hurt,
\* and startRound has run.
MidRound == 5
midGame ==
  [hardReset EXCEPT
     !.round = MidRound,
     !.units = [id \in Ids |->
        CASE id = "b1" -> [freshUnit(id) EXCEPT !.deployed = TRUE, !.tx = 0]
          [] id = "b2" -> [freshUnit(id) EXCEPT !.deployed = TRUE, !.tx = 1,
                                                !.suppressed = TRUE]
          [] id = "r1" -> [freshUnit(id) EXCEPT !.deployed = TRUE, !.tx = GRID_W - 1,
                                                !.horrorTokens = MaxHorror,
                                                !.nextActActionPenalty = 1,
                                                !.exhausted = TRUE]]]
InitMidGame ==
  \E p \in InitiativeRolls(midGame) : Install(startRound(midGame, p[1], p[2]))

Init == InitFresh \/ InitMidGame

\* The step of a handler that returned R.  A request that is turned away
\* before any resolver runs and changes nothing is a stuttering step.
LastTwo(seq) == IF Len(seq) > 2 THEN SubSeq(seq, Len(seq) - 1, Len(seq)) ELSE seq

Apply(op, R) ==
  LET G == R.S
      newRound == G.round # round
      began == G.activeId # None /\ G.activeId # activeId
  IN /\ steps < MaxSteps
     /\ steps' = steps + 1
     /\ ~(R.res \in {"ignored", "refused"} /\ G = St)
     /\ units' = G.units
     /\ round' = G.round
     /\ activeTeam' = G.activeTeam
     /\ pendingFirstPicker' = G.pendingFirstPicker
     /\ actionSelected' = G.actionSelected
     /\ activeId' = G.activeId
     /\ needsTargetClick' = G.needsTargetClick
     /\ ev' = [op |-> op, res |-> R.res, tgt |-> R.tgt, dice |-> R.dice, aim |-> R.aim,
               nat |-> R.nat, oa |-> R.oa, ht |-> R.ht,
               gain |-> \E id \in Ids : G.units[id].horrorTokens > units[id].horrorTokens]
     /\ hist' = IF G.activeId # activeId \/ newRound THEN <<>>
                ELSE IF R.res \in {"resolved", "deployed"}
                     THEN LastTwo(hist \o <<IF R.res = "deployed" THEN "Deploy"
                                            ELSE actionSelected>>)
                ELSE hist
     /\ hgain' = [id \in Ids |->
                    IF newRound THEN 0
                    ELSE IF G.units[id].horrorTokens > units[id].horrorTokens
                         THEN Min2(2, hgain[id] + 1) ELSE hgain[id]]
     /\ acts' = [id \in Ids |->
                   IF newRound THEN 0
                   ELSE IF began /\ G.activeId = id THEN Min2(2, acts[id] + 1)
                   ELSE acts[id]]
     /\ prevTeam' = IF newRound THEN None
                    ELSE IF began THEN teamOf(G.activeId) ELSE prevTeam
     /\ probe' = probe
     /\ load' = load
     /\ sim' = sim

SelectAction ==
  \E action \in ActionKinds : Apply("setAction", setAction(St, action))

\* a die is drawn only where the handler calls d20(): the first whenever the
\* resolver rolls at all, the second when the first leads to a saving throw
RollsAfter(R, n) == IF R.dice >= n THEN D20 ELSE {1}

ClickWith(tx, ty, roll, sroll, R) ==
  IF R.S.round = round THEN Apply("click", R)
  ELSE \E p \in InitiativeRolls(R.S) :
         Apply("click", canvasClick(St, tx, ty, roll, sroll, p[1], p[2]))

ClickTile ==
  \E tx \in 0..(GRID_W - 1), ty \in 0..(GRID_H - 1) :
    \E roll \in RollsAfter(canvasClick(St, tx, ty, 1, 1, 1, 2), 1) :
      \E sroll \in RollsAfter(canvasClick(St, tx, ty, roll, 1, 1, 2), 2) :
        ClickWith(tx, ty, roll, sroll, canvasClick(St, tx, ty, roll, sroll, 1, 2))

EndWith(res, G) ==
  IF G.round = round THEN Apply("endActivation", Out(G, res, NoRoll))
  ELSE \E p \in InitiativeRolls(G) :
         Apply("endActivation", Out(endActivation(St, p[1], p[2]), res, NoRoll))

EndActivation ==
  EndWith(IF activeId = None THEN "ignored" ELSE "ended", endActivation(St, 1, 2))

NextRound ==
  \E p \in InitiativeRolls(St) :
    Apply("nextRound", Out(startRound(St, p[1], p[2]), "round", NoRoll))

Next == SelectAction \/ ClickTile \/ EndActivation \/ NextRound

Spec == Init /\ [][Next]_vars

TypeOK ==
  /\ round \in 1..(MidRound + 1 + MaxSteps)
  /\ activeTeam \in Teams
  /\ activeId \in Ids \cup {None}
  /\ actionSelected \in ActionKinds \cup {None}

\* Another later round start of the same game: r1 stands in the far corner
\* of its edge with b2 beside it in the next row, and b1 has come up the
\* first row to within two tiles of the tiles next to r1.
meleeGame ==
  [midGame EXCEPT !.units["b1"].tx = GRID_W - 4,
                  !.units["b2"].tx = GRID_W - 1, !.units["b2"].ty = 1]

InitMelee ==
  \E p \in InitiativeRolls(meleeGame) : Install(startRound(meleeGame, p[1], p[2]))

SpecMelee == InitMelee /\ [][Next]_vars

\* --------------------------------------------------------------------- boot
\* boot() binds the buttons, then awaits loadAllData(); while the load is
\* pending, and after it has failed, the bound callbacks run whenever the
\* user presses a button.  The specification below interleaves the load's
\* two outcomes with the Random Warbands, Load (import), Next Round and
\* action buttons.

\* the module-level `game` object before anything has been made
emptyGame ==
  [units |-> <<>>, round |-> 1, activeTeam |-> None, pendingFirstPicker |-> None,
   actionSelected |-> None, activeId |-> None, needsTargetClick |-> FALSE]

InitBoot == InstallGame(emptyGame) /\ probe = NoProbe /\ load = "loading" /\ sim = NoSim

\* hardResetAfterRosterChange for the models in `made`: every Unit as
\* makeModel left it, round = 0 (startRound follows)
hardResetAfterRosterChange(made) ==
  [hardReset EXCEPT !.units = [id \in made |-> freshUnit(id)]]

\* randomizeBothWarbands: both rosters made anew, then the hard reset
randomizeBothWarbands(rDie, bDie) ==
  startRound(hardResetAfterRosterChange(Ids), rDie, bDie)

\* loadTeamFromTextarea with a roster of the team in the textarea: the
\* team's models are replaced, then the hard reset
loadTeamFromTextarea(S, team, rDie, bDie) ==
  startRound(hardResetAfterRosterChange(
               {m \in DOMAIN S.units : teamOf(m) # team}
               \cup {m \in Ids : teamOf(m) = team}), rDie, bDie)

\* the step of a callback that left the game G behind
BootStep(op, res, G, ld) ==
  /\ steps < MaxSteps
  /\ steps' = steps + 1
  /\ units' = G.units
  /\ round' = G.round
  /\ activeTeam' = G.activeTeam
  /\ pendingFirstPicker' = G.pendingFirstPicker
  /\ actionSelected' = G.actionSelected
  /\ activeId' = G.activeId
  /\ needsTargetClick' = G.needsTargetClick
  /\ ev' = [ev EXCEPT !.op = op, !.res = res]
  /\ load' = ld
  /\ UNCHANGED <<hist, hgain, acts, prevTeam, probe, sim>>

\* loadAllData resolves: boot goes on to newRandomMap and
\* randomizeBothWarbands
LoadCompletes ==
  /\ load = "loading"
  /\ \E p \in InitiativeRolls(hardReset) :
       BootStep("boot", "round", randomizeBothWarbands(p[1], p[2]), "loaded")

\* loadAllData rejects: boot logs the error and returns
LoadFails ==
  /\ load = "loading"
  /\ BootStep("boot", "failed", St, "failed")

RandomWarbandsButton ==
  \E p \in InitiativeRolls(hardReset) :
    BootStep("randomWarbands", "round", randomizeBothWarbands(p[1], p[2]), load)

LoadTeamButton ==
  \E team \in Teams :
    \E p \in InitiativeRolls(loadTeamFromTextarea(St, team, 1, 2)) :
      BootStep("loadTeam", "round", loadTeamFromTextarea(St, team, p[1], p[2]), load)

NextRoundButton ==
  \E p \in InitiativeRolls(St) :
    BootStep("nextRound", "round", startRound(St, p[1], p[2]), load)

\* setAction; before the first startRound game.activeTeam is null and
\* firstActivatableModel throws on game.teams[null]: the callback ends there
\* with nothing changed
ActionRequest(R) ==
  /\ ~(R.res \in {"ignored", "refused"} /\ R.S = St)
  /\ BootStep("setAction", R.res, R.S, load)

ActionButton ==
  /\ activeTeam # None
  /\ \E action \in ActionKinds : ActionRequest(setAction(St, action))

NextBoot ==
  \/ LoadCompletes
  \/ LoadFails
  \/ RandomWarbandsButton
  \/ LoadTeamButton
  \/ NextRoundButton
  \/ ActionButton

SpecBoot == InitBoot /\ [][NextBoot]_vars

\* ------------------------------------------------------- warband generator
\* Math.random() is the next number n of a stream of draws, standing for the
\* fraction n / RandDen; the stream is read round and round
RandDen == 3
StreamLen == 3
MaxTierTries == 2
MaxModelTries == 2

nextRandom(rnd, k) == rnd[(k % Len(rnd)) + 1]

rint(n, min, max) == min + ((n * (max - min + 1)) \div RandDen)

pick(arr, n) == arr[rint(n, 0, Len(arr) - 1) + 1]

tierRow(table, tier) == IF tier \in DOMAIN table THEN table[tier] ELSE table[1]

statCost(tiers) ==
  tierRow(DEF_WILL_TABLE, tiers.defense).cost + tierRow(DEF_WILL_TABLE, tiers.will).cost
  + tierRow(SHOOT_FIGHT_TABLE, tiers.shoot).cost
  + tierRow(SHOOT_FIGHT_TABLE, tiers.fight).cost

maxAccessorySlots(tiers) == tiers.defense
maxPsiMutSlots(tiers) == tiers.will

AllTierOne == [defense |-> 1, shoot |-> 1, fight |-> 1, will |-> 1]
NoLoadout == [rangedIdx |-> NoIdx, meleeIdx |-> NoIdx, accessoryIdx |-> <<>>,
              psychicIdx |-> <<>>, mutationIdx |-> <<>>]

Range(seq) == {seq[i] : i \in 1..Len(seq)}

\* mutant: the items are not filtered by what the cap leaves
choicesAnyPrice(items, placeholder, taken, remaining) ==
  LET open(i) == items[i + 1].name # placeholder /\ i \notin taken
  IN SelectSeq([i \in 1..Len(items) |-> i - 1], open)

\* buildRandomLoadout: the indices of the items of a table that may still be
\* drawn: not the table's placeholder entry, not taken yet, and affordable
choices(items, placeholder, taken, remaining) ==
  LET open(i) == /\ items[i + 1].name # placeholder
                 /\ i \notin taken
                 /\ items[i + 1].points <= remaining
  IN SelectSeq([i \in 1..Len(items) |-> i - 1], open)

psiMutPool(T, L, remaining) ==
  LET psy == choices(T.psychic, "no psychic powers", Range(L.psychicIdx), remaining)
      mut == choices(T.mutations, "not mutated", Range(L.mutationIdx), remaining)
  IN [j \in 1..Len(psy) |-> [kind |-> "psy", i |-> psy[j],
                             pts |-> T.psychic[psy[j] + 1].points]]
     \o [j \in 1..Len(mut) |-> [kind |-> "mut", i |-> mut[j],
                                pts |-> T.mutations[mut[j] + 1].points]]

RECURSIVE psiMutLoop(_, _, _, _, _, _, _)
psiMutTake(n, pmCap, L, T, rnd, k, remaining, c) ==
  psiMutLoop(n + 1, pmCap,
             IF c.kind = "psy" THEN [L EXCEPT !.psychicIdx = Append(@, c.i)]
             ELSE [L EXCEPT !.mutationIdx = Append(@, c.i)],
             T, rnd, k + 1, remaining - c.pts)

psiMutFrom(n, pmCap, L, T, rnd, k, remaining, pool) ==
  IF pool = <<>> THEN [ok |-> TRUE, loadout |-> L, k |-> k]
  ELSE psiMutTake(n, pmCap, L, T, rnd, k, remaining, pick(pool, nextRandom(rnd, k)))

\* buildRandomLoadout: psychic powers and mutations, up to the Will tier
psiMutLoop(n, pmCap, L, T, rnd, k, remaining) ==
  IF n >= pmCap THEN [ok |-> TRUE, loadout |-> L, k |-> k]
  ELSE psiMutFrom(n, pmCap, L, T, rnd, k, remaining, psiMutPool(T, L, remaining))

RECURSIVE accessoryLoop(_, _, _, _, _, _, _)
accessoryTake(n, tiers, L, T, rnd, k, remaining, c) ==
  accessoryLoop(n + 1, tiers, [L EXCEPT !.accessoryIdx = Append(@, c)], T, rnd, k + 1,
                remaining - T.accessories[c + 1].points)

accessoryFrom(n, tiers, L, T, rnd, k, remaining, ch) ==
  IF ch = <<>>
  THEN psiMutLoop(0, maxPsiMutSlots(tiers), L, T, rnd, k, remaining)
  ELSE accessoryTake(n, tiers, L, T, rnd, k, remaining, pick(ch, nextRandom(rnd, k)))

\* buildRandomLoadout: accessories, up to the Defense tier
accessoryLoop(n, tiers, L, T, rnd, k, remaining) ==
  IF n >= maxAccessorySlots(tiers)
  THEN psiMutLoop(0, maxPsiMutSlots(tiers), L, T, rnd, k, remaining)
  ELSE accessoryFrom(n, tiers, L, T, rnd, k, remaining,
                     choices(T.accessories, "no items", Range(L.accessoryIdx), remaining))

meleeTake(tiers, L, T, rnd, k, remaining, c) ==
  accessoryLoop(0, tiers, [L EXCEPT !.meleeIdx = c], T, rnd, k + 1,
                remaining - T.fight[c + 1].points)

\* buildRandomLoadout: the melee weapon
meleeFrom(tiers, L, T, rnd, k, remaining, ch) ==
  IF ch = <<>> THEN accessoryLoop(0, tiers, L, T, rnd, k, remaining)
  ELSE meleeTake(tiers, L, T, rnd, k, remaining, pick(ch, nextRandom(rnd, k)))

rangedTake(tiers, T, rnd, k, remaining, c) ==
  meleeFrom(tiers, [NoLoadout EXCEPT !.rangedIdx = c], T, rnd, k + 1,
            remaining - T.shoot[c + 1].points,
            choices(T.fight, "unarmed", {}, remaining - T.shoot[c + 1].points))

\* buildRandomLoadout: the ranged weapon
rangedFrom(tiers, T, rnd, k, remaining, ch) ==
  IF ch = <<>>
  THEN meleeFrom(tiers, NoLoadout, T, rnd, k, remaining,
                 choices(T.fight, "unarmed", {}, remaining))
  ELSE rangedTake(tiers, T, rnd, k, remaining, pick(ch, nextRandom(rnd, k)))

\* the value null stands for: [ok |-> FALSE]
buildRandomLoadout(tiers, pointCap, T, rnd, k) ==
  IF statCost(tiers) > pointCap THEN [ok |-> FALSE, loadout |-> NoLoadout, k |-> k]
  ELSE rangedFrom(tiers, T, rnd, k, pointCap - statCost(tiers),
                  choices(T.shoot, "no ranged weapon", {}, pointCap - statCost(tiers)))

drawnTiers(rnd, k) ==
  [defense |-> rint(nextRandom(rnd, k), 1, 3),
   shoot |-> rint(nextRandom(rnd, k + 1), 1, 3),
   fight |-> rint(nextRandom(rnd, k + 2), 1, 3),
   will |-> rint(nextRandom(rnd, k + 3), 1, 3)]

RECURSIVE tiersTry(_, _, _, _)
tiersTry(pointCap, rnd, k, tries) ==
  IF tries >= MaxTierTries THEN [tiers |-> AllTierOne, k |-> k, exhausted |-> TRUE]
  ELSE IF statCost(drawnTiers(rnd, k)) <= pointCap
       THEN [tiers |-> drawnTiers(rnd, k), k |-> k + 4, exhausted |-> FALSE]
       ELSE tiersTry(pointCap, rnd, k + 4, tries + 1)

randomTiersWithinCap(pointCap, rnd, k) == tiersTry(pointCap, rnd, k, 0)

\* makeModel's arguments; exhausted and fallback record how the generator
\* came by them, and k is the place in the stream after genModelName()
RECURSIVE modelTry(_, _, _, _, _, _)
modelBuilt(role, pointCap, T, rnd, tries, rt, bl) ==
  IF ~bl.ok THEN modelTry(role, pointCap, T, rnd, bl.k, tries + 1)
  ELSE [role |-> role, pointCap |-> pointCap, tiers |-> rt.tiers, loadout |-> bl.loadout,
        exhausted |-> rt.exhausted, fallback |-> FALSE, k |-> bl.k + 2]

modelTiered(role, pointCap, T, rnd, tries, rt) ==
  modelBuilt(role, pointCap, T, rnd, tries, rt,
             buildRandomLoadout(rt.tiers, pointCap, T, rnd, rt.k))

\* makeRandomWarband: one model, by bounded retries, else the fallback
modelTry(role, pointCap, T, rnd, k, tries) ==
  IF tries >= MaxModelTries
  THEN [role |-> role, pointCap |-> pointCap, tiers |-> AllTierOne,
        loadout |-> NoLoadout, exhausted |-> FALSE, fallback |-> TRUE, k |-> k + 2]
  ELSE modelTiered(role, pointCap, T, rnd, tries,
                   randomTiersWithinCap(pointCap, rnd, k))

LeaderCap == 20
FollowerCap == 75
Followers == 4

RECURSIVE addFollowers(_, _, _, _, _)
addFollower(models, i, T, rnd, m) ==
  addFollowers(Append(models, m), i + 1, T, rnd, m.k)

addFollowers(models, i, T, rnd, k) ==
  IF i > Followers THEN models
  ELSE addFollower(models, i, T, rnd, modelTry("Model", FollowerCap, T, rnd, k, 0))

withLeader(T, rnd, m) == addFollowers(<<m>>, 1, T, rnd, m.k)

\* the warband's name and its two traits take four draws first
makeRandomWarband(T, rnd) ==
  withLeader(T, rnd, modelTry("Leader", LeaderCap, T, rnd, 4, 0))

\* ------------------------------------------------------------------- import
\* A field of a parsed JSON object is missing (undefined), null, a number or
\* a string; a string either reads as a number ("2") or does not ("abc").
\* A JavaScript number is an integer n or NaN.
MaxTierField == 4
Missing == [t |-> "missing"]
Null == [t |-> "null"]
Num(n) == [t |-> "num", n |-> n]
Str(numeric, n) == [t |-> "str", numeric |-> numeric, n |-> n]
NaN == [nan |-> TRUE, n |-> 0]
Finite(n) == [nan |-> FALSE, n |-> n]

\* a ?? b
coalesce(a, b) == IF a.t \in {"missing", "null"} THEN b ELSE a

\* Number(v)
Number(v) ==
  IF v.t = "num" THEN Finite(v.n)
  ELSE IF v.t = "str" THEN (IF v.numeric THEN Finite(v.n) ELSE NaN)
  ELSE IF v.t = "null" THEN Finite(0)
  ELSE NaN

\* builderWarbandToModels, one member: a member that is null makes m.defense
\* throw, which loadTeamFromTextarea catches ("Import failed")
builderWarbandToModels(m) ==
  IF m = Null THEN [threw |-> TRUE, tiers |-> <<>>]
  ELSE [threw |-> FALSE,
        tiers |-> [defense |-> Number(coalesce(m.defense, Num(1))),
                   shoot |-> Number(coalesce(m.shoot, Num(1))),
                   fight |-> Number(coalesce(m.fight, Num(1))),
                   will |-> Number(coalesce(m.will, Num(1)))]]

\* simpleArrayToModels, one entry: o = arr[i] || {} and tiers = o.tiers || {}
simpleArrayToModels(o) ==
  LET tiers == IF o = Null THEN [def |-> Missing, defense |-> Missing, wp |-> Missing,
                                 will |-> Missing, shoot |-> Missing, fight |-> Missing]
               ELSE o
  IN [threw |-> FALSE,
      tiers |-> [defense |-> Number(coalesce(coalesce(tiers.def, tiers.defense), Num(1))),
                 will |-> Number(coalesce(coalesce(tiers.wp, tiers.will), Num(1))),
                 shoot |-> Number(coalesce(tiers.shoot, Num(1))),
                 fight |-> Number(coalesce(tiers.fight, Num(1)))]]

\* the tier fields a roster may carry
TierFields ==
  {Missing, Null, Num(-1), Num(2), Num(MaxTierField), Str(TRUE, 2), Str(FALSE, 0)}
LongFields == {Missing, Num(2), Str(FALSE, 0)}
BuilderMembers ==
  {Null} \cup [defense : TierFields, shoot : TierFields, fight : TierFields,
               will : TierFields]
SimpleEntries ==
  {Null} \cup [def : TierFields, defense : LongFields, wp : TierFields, will : LongFields,
               shoot : TierFields, fight : LongFields]

\* ------------------------------------------------ initiative, with its ties
\* teamInitiativeBonus over a team given as the list of its models, each with
\* its Willpower tier and whether it is dead
teamInitiativeBonusOf(models) ==
  LET living == {i \in 1..Len(models) : ~models[i].dead}
  IN IF living = {} THEN 0
     ELSE CHOOSE b \in {willMod(models[i].will) : i \in living} :
            \A i \in living : willMod(models[i].will) <= b

\* mutant: a tied roll is settled for Blue instead of being re-rolled
rollInitiativeNoReroll(red, blue, rolls) ==
  IF rolls = <<>> THEN [winner |-> None, Red |-> 0, Blue |-> 0, rolled |-> 0]
  ELSE LET rRoll == Head(rolls)[1] + teamInitiativeBonusOf(red)
           bRoll == Head(rolls)[2] + teamInitiativeBonusOf(blue)
       IN [winner |-> IF rRoll > bRoll THEN "Red" ELSE "Blue",
           Red |-> rRoll, Blue |-> bRoll, rolled |-> 1]

\* rollInitiative fed the pairs of d20 it draws, in order: a tied pair makes
\* it call itself for the next pair. winner is None while the pairs given
\* have all tied (the function has not returned and no team is chosen);
\* Red and Blue are game.initiative, rolled the number of pairs drawn.
RECURSIVE rollInitiativeRolls(_, _, _)
rollInitiativeRolls(red, blue, rolls) ==
  IF rolls = <<>> THEN [winner |-> None, Red |-> 0, Blue |-> 0, rolled |-> 0]
  ELSE LET rRoll == Head(rolls)[1] + teamInitiativeBonusOf(red)
           bRoll == Head(rolls)[2] + teamInitiativeBonusOf(blue)
           again == rollInitiativeRolls(red, blue, Tail(rolls))
       IN IF rRoll = bRoll
          THEN IF again.rolled = 0
               THEN [winner |-> None, Red |-> rRoll, Blue |-> bRoll, rolled |-> 1]
               ELSE [again EXCEPT !.rolled = @ + 1]
          ELSE [winner |-> IF rRoll > bRoll THEN "Red" ELSE "Blue",
                Red |-> rRoll, Blue |-> bRoll, rolled |-> 1]

\* the d20 faces tried: their differences cover every difference between two
\* Willpower modifiers, so every pair of bonuses can tie
DiceTried == {1, 3, 7, 20}
MaxRerolls == 1
RollStreams == UNION {[1..n -> DiceTried \X DiceTried] : n \in 1..(MaxRerolls + 1)}

\* teams tried: empty, one model, the best Willpower first or last, the best
\* Willpower dead, everybody dead
TeamsTried ==
  {<<>>,
   <<[will |-> 0, dead |-> FALSE]>>,
   <<[will |-> 3, dead |-> FALSE], [will |-> 1, dead |-> FALSE]>>,
   <<[will |-> 1, dead |-> FALSE], [will |-> 2, dead |-> FALSE]>>,
   <<[will |-> 3, dead |-> TRUE], [will |-> 2, dead |-> FALSE]>>,
   <<[will |-> 2, dead |-> TRUE]>>}

\* ------------------------------------------------- pure functions, probed
\* The inputs: end points of a traced line, a tier, the offset of a target
\* from its attacker, and rule tables with a stream of random draws
MaxCoord == 3
MaxRange == 7
Prices == {-5, 0, 7, 30}

tablesPriced(p, q) ==
  [shoot |-> <<[name |-> "no ranged weapon", points |-> 0],
               [name |-> "rifle", points |-> p]>>,
   fight |-> <<[name |-> "unarmed", points |-> 0],
               [name |-> "blade", points |-> q]>>,
   accessories |-> <<[name |-> "no items", points |-> 0],
                     [name |-> "reticule", points |-> p],
                     [name |-> "plate", points |-> q]>>,
   psychic |-> <<[name |-> "no psychic powers", points |-> 0],
                 [name |-> "ward", points |-> q]>>,
   mutations |-> <<[name |-> "not mutated", points |-> 0],
                   [name |-> "claws", points |-> p]>>]

Streams == [1..StreamLen -> 0..(RandDen - 1)]

\* b1 at the origin and r1 dx tiles right and dy tiles down of it
duelAt(dx, dy) ==
  [hardReset EXCEPT !.units["b1"].deployed = TRUE, !.units["r1"].deployed = TRUE,
                    !.units["r1"].tx = dx, !.units["r1"].ty = dy]

\* the modifier and the cost the tables give one tier of each attribute
costOfTier(attr, tier) ==
  statCost([[defense |-> 0, will |-> 0, shoot |-> 0, fight |-> 0] EXCEPT ![attr] = tier])

tierLookups(tier) ==
  [defense |-> [mod |-> defenseMod(tier), cost |-> costOfTier("defense", tier)],
   will |-> [mod |-> willMod(tier), cost |-> costOfTier("will", tier)],
   shoot |-> [mod |-> shootMod(tier), cost |-> costOfTier("shoot", tier)],
   fight |-> [mod |-> fightMod(tier), cost |-> costOfTier("fight", tier)]]

\* sim.js, the engine of the documentation site: a Shoot from the to-hit
\* roll on, with the reroll of the Extra Eyes trait.  need is the Armor
\* Class less the modifiers (the roll that hits), raw and rr the d20 of the
\* roll and of the reroll, used the attacker's rerollShootUsed, heavy
\* whether heavy cover lies on the line, savePass whether the defender's
\* saving throw, if rolled, succeeds, dmg the weapon damage.
resolveHitDamageAndSave(nat20, a) ==
  LET finalDmg == IF nat20 THEN a.dmg + 1 ELSE a.dmg
  IN IF nat20 /\ ~a.heavy THEN [hit |-> TRUE, save |-> FALSE, damage |-> finalDmg]
     ELSE [hit |-> TRUE, save |-> TRUE, damage |-> IF a.savePass THEN 0 ELSE finalDmg]

resolveShoot(a) ==
  LET nat20 == a.raw = 20
      nat1 == a.raw = 1
      hit == nat20 \/ a.raw >= a.need
      rrNat20 == a.rr = 20
      rrNat1 == a.rr = 1
      rrHit == rrNat20 \/ a.rr >= a.need
      miss == [hit |-> FALSE, save |-> FALSE, damage |-> 0]
      with(o, rerolled) == [hit |-> o.hit, save |-> o.save, damage |-> o.damage,
                            rerolled |-> rerolled, used |-> a.used \/ rerolled]
  IN IF nat1 THEN with(miss, FALSE)
     ELSE IF hit THEN with(resolveHitDamageAndSave(nat20, a), FALSE)
     ELSE IF ~a.used /\ a.extraEyes
       THEN IF rrNat1 THEN with(miss, TRUE)
            ELSE IF ~rrHit THEN with(miss, TRUE)
            ELSE IF rrNat20 THEN with(resolveHitDamageAndSave(TRUE, a), TRUE)
            ELSE with(miss, TRUE)
     ELSE with(miss, FALSE)

NeedsTried == {11, 21}
ShootRolls ==
  [raw : D20, rr : D20, need : NeedsTried, used : BOOLEAN, extraEyes : BOOLEAN,
   heavy : BOOLEAN, savePass : BOOLEAN, dmg : {2}]

\* the attack rolls, probed: r1, active with three actions, attacks b1, which
\* stands next to it unhurt.  The to-hit total is given by its margin over
\* the Armor Class of b1 (the tier tables allow a natural 1 to total as much
\* as the Armor Class plus 1, and a natural 20 to total less than it), the
\* weapon by its damage and armour penetration.
MaxMargin == 1
MarginsTried == (0 - MaxMargin)..MaxMargin
AttackRolls ==
  [kind : {"Shoot"}, cover : {"none", "light", "heavy"}, margin : MarginsTried,
   dmg : 1..2, ap : {0, 2}, roll : D20, sroll : D20]
  \cup [kind : {"Fight"}, cover : {"none"}, margin : MarginsTried,
        dmg : 1..2, ap : {0, 2}, roll : D20, sroll : D20]
attackGame(kind) ==
  [duelAt(1, 0) EXCEPT !.round = 1, !.activeTeam = "Red", !.activeId = "r1",
                       !.actionSelected = kind, !.needsTargetClick = TRUE,
                       !.units["r1"].actionsLeft = BaseActions]
\* the resolver from the roll on, then the rest of resolveBoardClick
attackRolled(a) ==
  LET G == attackGame(a.kind)
      total == armorClass("b1") + a.margin
      weapon == [isNull |-> FALSE, name |-> "", damage |-> a.dmg, ap |-> a.ap,
                 apStar |-> FALSE]
      r == IF a.kind = "Shoot"
           THEN shootRoll(applySuppressed(G, "b1"), "b1", a.cover, 0, total, a.dmg, a.ap,
                          a.roll, a.sroll)
           ELSE fightRoll(G, "b1", total, weapon, a.roll, a.sroll)
  IN [r |-> r, out |-> afterResolver(G, "r1", "b1", r, 20, 1)]

InstallProbe(fn, arg) ==
  /\ \E p \in InitiativeRolls(hardReset) : InstallGame(startRound(hardReset, p[1], p[2]))
  /\ probe = [fn |-> fn, arg |-> arg, val |-> <<>>]
  /\ load = "loaded"
  /\ sim = NoSim

InitFn ==
  \/ \E a \in (0..MaxCoord) \X (0..MaxCoord) \X (0..MaxCoord) \X (0..MaxCoord) :
       InstallProbe("bresenham", a)
  \/ \E t \in 0..3 : InstallProbe("tables", <<t>>)
  \/ \E d \in (0..MaxRange) \X (0..MaxRange) : InstallProbe("computeRangePenalty", d)
  \/ \E p \in Prices, q \in Prices, rnd \in Streams :
       InstallProbe("makeRandomWarband", [T |-> tablesPriced(p, q), rnd |-> rnd])
  \/ \E m \in BuilderMembers : InstallProbe("builderWarbandToModels", m)
  \/ \E o \in SimpleEntries : InstallProbe("simpleArrayToModels", o)
  \/ \E a \in AttackRolls : InstallProbe("attackRoll", a)
  \/ \E a \in ShootRolls : InstallProbe("resolveShoot", a)
  \/ \E red \in TeamsTried, blue \in TeamsTried, rolls \in RollStreams :
       InstallProbe("rollInitiative", [Red |-> red, Blue |-> blue, rolls |-> rolls])

ProbeStep(fn, v) ==
  /\ probe.fn = fn
  /\ probe.val = <<>>
  /\ probe' = [probe EXCEPT !.val = <<v>>]
  /\ UNCHANGED <<gameVars, ev, hist, hgain, acts, prevTeam, steps, load, sim>>

TraceLine ==
  ProbeStep("bresenham",
            [ab |-> bresenham(probe.arg[1], probe.arg[2], probe.arg[3], probe.arg[4]),
             ba |-> bresenham(probe.arg[3], probe.arg[4], probe.arg[1], probe.arg[2])])

LookupTier == ProbeStep("tables", tierLookups(probe.arg[1]))

RangePenalty ==
  ProbeStep("computeRangePenalty",
            computeRangePenalty(duelAt(probe.arg[1], probe.arg[2]), "b1", "r1"))

Generate ==
  ProbeStep("makeRandomWarband", makeRandomWarband(probe.arg.T, probe.arg.rnd))

ImportBuilder ==
  ProbeStep("builderWarbandToModels", builderWarbandToModels(probe.arg))

ImportSimple ==
  ProbeStep("simpleArrayToModels", simpleArrayToModels(probe.arg))

RollForInitiative ==
  ProbeStep("rollInitiative",
            rollInitiativeRolls(probe.arg.Red, probe.arg.Blue, probe.arg.rolls))

RollAttack == ProbeStep("attackRoll", attackRolled(probe.arg))

ResolveShoot == ProbeStep("resolveShoot", resolveShoot(probe.arg))

NextFn ==
  \/ TraceLine
  \/ LookupTier
  \/ RangePenalty
  \/ Generate
  \/ ImportBuilder
  \/ ImportSimple
  \/ RollForInitiative
  \/ RollAttack
  \/ ResolveShoot

SpecFn == InitFn /\ [][NextFn]_vars

\* ------------------------------------------- the site's Game, call by call
\* sim.js, class Game: the handlers that start a round, with startRound and
\* pickNextActiveUnit taken one call at a time.  `units` is the array in
\* its order (find takes the first match), `stack` the calls entered and
\* not yet returned, `thrown` whether the last handler ended in the
\* engine's RangeError for a full call stack, `entry` the round counter
\* when the last handler was entered.  The attacks are left out: to the
\* rollover they only matter through hp, and a warband loaded with every
\* tier 0 has hp 0.
MaxStack == 4
MaxSimRound == 3
MaxLoad == 2
SideSize == 3
HpTried == {0, 4}
teamOrder == <<"Blue", "Red">>

simUnit(id, team, hp) ==
  [id |-> id, team |-> team, hp |-> hp, exhausted |-> FALSE, actionsLeft |-> 3]

\* crypto.randomUUID: an id no Unit of the array carries, nor activeUnitId
freshId(G, k) ==
  LET used == {G.units[i].id : i \in 1..Len(G.units)} \cup {G.activeUnitId}
  IN CHOOSE n \in 1..(Cardinality(used) + k) :
       Cardinality({m \in 1..n : m \notin used}) = k

clearTeam(G, team) ==
  [G EXCEPT !.units = SelectSeq(G.units, LAMBDA u : u.team # team)]

pushUnits(G, team, hps) ==
  [G EXCEPT !.units =
     @ \o [i \in 1..Len(hps) |-> simUnit(freshId(G, i), team, hps[i])]]

\* a call: a frame more, or the RangeError that unwinds every frame
call(G, f) ==
  IF Len(G.stack) >= MaxStack THEN [G EXCEPT !.stack = <<>>, !.thrown = TRUE]
  ELSE [G EXCEPT !.stack = Append(@, f)]

\* a handler is entered from the event loop
entered(G) == [G EXCEPT !.thrown = FALSE, !.entry = G.round]

findReady(G, team) ==
  LET ready == {i \in 1..Len(G.units) :
                  G.units[i].team = team /\ ~G.units[i].exhausted /\ G.units[i].hp > 0}
  IN IF ready = {} THEN 0 ELSE CHOOSE i \in ready : \A j \in ready : i <= j

\* new Game: randomWarbands and the constructor each start round 1
newGame ==
  LET G0 == [NoSim EXCEPT !.round = 1]
      G1 == pushUnits(G0, "Blue", [i \in 1..SideSize |-> 4])
      G2 == pushUnits(G1, "Red", [i \in 1..SideSize |-> 4])
  IN [G2 EXCEPT !.activeUnitId = G2.units[1].id, !.entry = 1]

InitRound ==
  /\ InstallGame(emptyGame) /\ probe = NoProbe /\ load = "loaded"
  /\ sim = newGame

SimStep(G) ==
  /\ sim' = G
  /\ UNCHANGED <<gameVars, ev, hist, hgain, acts, prevTeam, steps, probe, load>>

Idle == sim.stack = <<>> /\ sim.round < MaxSimRound

LoadWarbandFromModelArray ==
  /\ Idle
  /\ \E team \in {"Blue", "Red"}, n \in 0..MaxLoad : \E hps \in [1..n -> HpTried] :
       SimStep(call(pushUnits(clearTeam(entered(sim), team), team, hps), "startRound"))

RandomWarbands ==
  /\ Idle
  /\ LET G0 == [entered(sim) EXCEPT !.units = <<>>]
         G1 == pushUnits(G0, "Blue", [i \in 1..SideSize |-> 4])
         G2 == pushUnits(G1, "Red", [i \in 1..SideSize |-> 4])
     IN SimStep(call(G2, "startRound"))

ForceNextRound ==
  /\ Idle
  /\ SimStep(call([entered(sim) EXCEPT !.round = @ + 1], "startRound"))

SimEndActivation ==
  /\ Idle
  /\ \E i \in 1..Len(sim.units) :
       /\ sim.units[i].id = sim.activeUnitId
       /\ SimStep(call([entered(sim) EXCEPT
                          !.units[i].exhausted = TRUE, !.units[i].actionsLeft = 0,
                          !.activationTeamIndex = (@ + 1) % Len(teamOrder)],
                       "pickNextActiveUnit"))

\* startRound up to its call of pickNextActiveUnit
StartRound ==
  /\ sim.stack # <<>>
  /\ sim.stack[Len(sim.stack)] = "startRound"
  /\ SimStep(call([sim EXCEPT
                     !.units = [i \in 1..Len(sim.units) |->
                                  [sim.units[i] EXCEPT !.exhausted = FALSE,
                                                       !.actionsLeft = 3]],
                     !.activationTeamIndex = 0],
                  "pickNextActiveUnit"))

\* pickNextActiveUnit: with a model found, it and every pending startRound
\* return (they have only a line to log); with none, the round counter
\* goes up and startRound is called again
PickNextActiveUnit ==
  /\ sim.stack # <<>>
  /\ sim.stack[Len(sim.stack)] = "pickNextActiveUnit"
  /\ LET tA == teamOrder[sim.activationTeamIndex + 1]
         tB == teamOrder[((sim.activationTeamIndex + 1) % Len(teamOrder)) + 1]
         a == findReady(sim, tA)
         b == findReady(sim, tB)
         next == IF a # 0 THEN a ELSE b
         index == IF a = 0 /\ b # 0
                  THEN (sim.activationTeamIndex + 1) % Len(teamOrder)
                  ELSE sim.activationTeamIndex
     IN IF next = 0
        THEN SimStep(call([sim EXCEPT !.round = @ + 1], "startRound"))
        ELSE SimStep([sim EXCEPT !.activationTeamIndex = index,
                                 !.activeUnitId = sim.units[next].id,
                                 !.units[next].actionsLeft = 3,
                                 !.stack = <<>>])

NextRoundSim ==
  \/ LoadWarbandFromModelArray
  \/ RandomWarbands
  \/ ForceNextRound
  \/ SimEndActivation
  \/ StartRound
  \/ PickNextActiveUnit

\* the engine runs a call it has entered: the two steps of the rollover
\* are taken whenever they stay possible
SpecRound ==
  InitRound /\ [][NextRoundSim]_vars /\ WF_vars(StartRound) /\ WF_vars(PickNextActiveUnit)

\* ------------------------------------------------------------------ claims
\* the model that a canvas click acts for, and the last action it resolved
Acting == activeId
LastAction == IF hist = <<>> THEN None ELSE hist[Len(hist)]
Living(S) == {m \in Ids : ~S.units[m].dead}

\* C1: every Disengage request by an engaged model, whatever the legality
\* of the destination tile, has rolled the opportunity attack.
C1_AttackBeforeLegality ==
  [][(/\ ev'.op = "click"
      /\ ev'.res \in {"resolved", "rejected"}
      /\ actionSelected = "Disengage"
      /\ isEngaged(St, Acting))
     => ev'.oa]_vars

\* C2: a request that a resolver rejects leaves every field of every Unit
\* as it was.
C2_RejectedLeavesUnits ==
  [][ev'.res = "rejected" => units' = units]_vars

\* C3: no Unit ever holds more than MaxHorror Horror tokens, within one
\* round its tokens increase at most once, and an increase is by exactly 1.
C3_HorrorBounded ==
  [][\A u \in Ids :
       /\ units'[u].horrorTokens <= MaxHorror
       /\ hgain'[u] <= 1
       /\ units'[u].horrorTokens <= units[u].horrorTokens + 1]_vars

\* C3 witness: a failed Horror Test that added no token to a Unit that had
\* already gained one in this round and is still below the cap.
C3_Witness ==
  /\ ev.ht = "fail"
  /\ ~ev.gain
  /\ \E u \in Ids : /\ u = (IF ev.tgt = None THEN activeId ELSE ev.tgt)
                    /\ hgain[u] = 1
                    /\ units[u].horrorTokens < MaxHorror

\* C4: after any resolved action other than Aim the acting model's aim
\* count is 0.
C4_AimClearedByAction ==
  [][(ev'.res = "resolved" /\ actionSelected # "Aim")
     => units'[Acting].aimedCount = 0]_vars

\* C5: a resolved Shoot that directly follows two Aims of the activation has
\* aim bonus +3, one that directly follows a single Aim has +1, one in an
\* activation without any Aim, or directly after another Shoot, has 0; and
\* the Shoot leaves the aim count at 0.
C5_AimBonus ==
  [][(ev'.res = "resolved" /\ actionSelected = "Shoot")
     => LET n == Len(hist)
            lastAim == n >= 1 /\ hist[n] = "Aim"
            twoAims == n >= 2 /\ hist[n] = "Aim" /\ hist[n - 1] = "Aim"
            noAim == \A i \in 1..n : hist[i] # "Aim"
        IN /\ twoAims => ev'.aim = 3
           /\ (lastAim /\ ~twoAims) => ev'.aim = 1
           /\ (noAim \/ LastAction = "Shoot") => ev'.aim = 0
           /\ units'[Acting].aimedCount = 0]_vars

\* C5 witness: Aim, Aim, Shoot in one activation, the Shoot rolled at +3.
C5_Witness ==
  /\ ev.res = "resolved"
  /\ ev.aim = 3
  /\ hist = <<"Aim", "Shoot">>
  /\ activeId # None
  /\ units[activeId].aimedCount = 0

\* C6: while the active model has no action left, no action button and no
\* canvas click changes the game.
C6_NoActionLeft ==
  [][(/\ activeId # None
      /\ units[activeId].actionsLeft = 0
      /\ ev'.op \in {"setAction", "click"})
     => UNCHANGED gameVars]_vars

\* C6 witness: an active model that has resolved two actions and has none
\* left, while requests can still be made.
C6_Witness ==
  /\ activeId # None
  /\ units[activeId].actionsLeft = 0
  /\ Len(hist) = 2
  /\ steps < MaxSteps

C8_Alternation ==
  [][(/\ activeId' # None
      /\ activeId' # activeId
      /\ round' = round
      /\ prevTeam = teamOf(activeId'))
     => ~hasReady(St, enemyTeam(prevTeam))]_vars

\* C9: within one round a model begins at most one activation, and every
\* request that is accepted (activation begun, action selected, deployment,
\* action resolved) is for a model that is not exhausted.
C9_ExhaustedWaits ==
  [][/\ \A u \in Ids : acts'[u] <= 1
     /\ ev'.res \in {"began", "selected"} => ~units[activeId'].exhausted
     /\ ev'.res \in {"deployed", "resolved"} => ~units[Acting].exhausted]_vars

\* C9 witness: an exhausted model whose team is to act again in the round.
C9_Witness ==
  /\ activeId = None
  /\ steps < MaxSteps
  /\ \E u \in Ids : /\ units[u].exhausted
                    /\ ~units[u].dead
                    /\ acts[u] = 1
                    /\ teamOf(u) = activeTeam

Requesting ==
  IF activeId # None THEN activeId ELSE firstActivatableModel(St, activeTeam)

\* the actions a request finds the model with: those it has left, or, for a
\* model that the request itself activates, those beginActivation gives it
ActionsAtHand(m) ==
  IF activeId = m THEN units[m].actionsLeft
  ELSE beginActivation(St, m).S.units[m].actionsLeft

EnemyWithinOne(m) ==
  \E e \in Ids :
    /\ teamOf(e) # teamOf(m)
    /\ units[e].deployed /\ ~units[e].dead
    /\ Max2(Abs(units[m].tx - units[e].tx), Abs(units[m].ty - units[e].ty)) <= 1

C13_FailedMoveSpendsAction ==
  [][(/\ ev'.op = "click"
      /\ actionSelected = "Move"
      /\ activeId # None
      /\ units[Acting].deployed /\ units[Acting].suppressed
      /\ ev'.ht = "fail")
     => /\ units'[Acting].actionsLeft = units[Acting].actionsLeft - 1
        /\ units'[Acting].tx = units[Acting].tx
        /\ units'[Acting].ty = units[Acting].ty]_vars

\* C14: a Disengage that succeeds leaves the model more than one tile
\* (Chebyshev) away from every living enemy, not only from those it was
\* engaged with; a destination next to any enemy fails the action.
C14_DisengageClearOfAll ==
  [][(/\ ev'.op = "click" /\ ev'.res = "resolved"
      /\ actionSelected = "Disengage"
      /\ ~units'[Acting].dead)
     => \A e \in Ids :
          (teamOf(e) # teamOf(Acting) /\ units'[e].deployed /\ ~units'[e].dead)
            => chebDist(units'[Acting].tx, units'[Acting].ty,
                        units'[e].tx, units'[e].ty) > 1]_vars

\* the living members of a team that have not activated this round
LivingReady(team) ==
  {m \in Living(St) : teamOf(m) = team /\ ~units[m].exhausted}

\* a living deployed model stands on the tile
LivingOn(tx, ty) ==
  \E m \in Living(St) : units[m].deployed /\ units[m].tx = tx /\ units[m].ty = ty

\* C15: a dead Unit does not occupy its tile (the tile is a legal Move,
\* Charge, Disengage and deployment destination unless a living model or a
\* Blocking tile is there), is not found as the target of a click, is nobody's
\* engaged enemy (so makes no opportunity attack) and is not engaged itself,
\* and is left out of the readiness checks of endActivation and round end.
C15_DeadUnitsLeftOut ==
  /\ \A d \in Ids \ Living(St) :
       /\ units[d].deployed =>
            /\ isOccupied(St, units[d].tx, units[d].ty) = LivingOn(units[d].tx, units[d].ty)
            /\ canMoveTo(St, units[d].tx, units[d].ty)
                 = (~LivingOn(units[d].tx, units[d].ty)
                    /\ board[units[d].ty][units[d].tx] # TILE_BLOCK)
            /\ \A a \in Ids : enemyAt(St, a, units[d].tx, units[d].ty) # d
            /\ modelAt(St, units[d].tx, units[d].ty) # d
       /\ ~isEngaged(St, d)
       /\ \A m \in Ids : d \notin Range(engagedEnemies(St, m))
       /\ firstActivatableModel(St, teamOf(d)) # d
       /\ activeId # d
  /\ \A team \in Teams :
       /\ allExhausted(St, team) = (LivingReady(team) = {})
       /\ hasReady(St, team) = (LivingReady(team) # {})
       /\ (firstActivatableModel(St, team) = None) = (LivingReady(team) = {})

\* C15 witness: the active model, with actions left, stands within one
\* tile of an enemy that was taken out of action.
C15_Witness ==
  \E d \in Ids \ Living(St) : \E m \in Living(St) :
    /\ units[d].deployed /\ units[m].deployed
    /\ teamOf(m) # teamOf(d)
    /\ chebDist(units[m].tx, units[m].ty, units[d].tx, units[d].ty) <= 1
    /\ m = activeId
    /\ units[m].actionsLeft > 0

\* a living deployed enemy of a that stands on a HeavyCover tile
OnHeavyCover(a, t) ==
  /\ teamOf(t) # teamOf(a)
  /\ units[t].deployed /\ ~units[t].dead
  /\ board[units[t].ty][units[t].tx] = TILE_HEAVY

Probed(fn) == probe.fn = fn /\ probe.val # <<>>

\* C16: the line traced from A to B and the line traced from B to A visit
\* the same set of tiles, for every two grid points A and B.
C16_TraceSymmetric ==
  Probed("bresenham") => Range(probe.val[1].ab) = Range(probe.val[1].ba)

\* C17: for every tier 0..3 the modifier and the cost looked up are those of
\* the fixed tables; for Shoot and Fight tier 1 has the modifier of tier 0
\* but a cost above the cost 0 of tier 0.
C17_TierTables ==
  Probed("tables") =>
    LET t == probe.arg[1]
        v == probe.val[1]
    IN /\ v.defense = DEF_WILL_TABLE[t] /\ v.will = DEF_WILL_TABLE[t]
       /\ v.shoot = SHOOT_FIGHT_TABLE[t] /\ v.fight = SHOOT_FIGHT_TABLE[t]
       /\ t = 0 => v.shoot.cost = 0 /\ v.fight.cost = 0
       /\ t = 1 => /\ v.shoot.mod = shootMod(0) /\ v.fight.mod = fightMod(0)
                   /\ v.shoot.cost > 0 /\ v.fight.cost > 0

\* C18: the range penalty is 0 up to 4 tiles (2 distance units), -1 at 5 and
\* 6 tiles (above 2 and up to 3 units, 3 units exactly included) and -3 from
\* 7 tiles on (above 3 units).
C18_RangePenalty ==
  Probed("computeRangePenalty") =>
    LET tiles == Max2(probe.arg[1], probe.arg[2])
    IN probe.val[1] = (IF tiles <= 4 THEN 0 ELSE IF tiles <= 6 THEN -1 ELSE -3)

\* C18 witness: a target exactly 3 distance units (6 tiles) away, at -1.
C18_Witness ==
  Probed("computeRangePenalty") /\ probe.arg = <<6, 0>> /\ probe.val = <<-1>>

\* total points of a generated model: tiers, weapons, accessories, psychic
\* powers and mutations
SumPoints(items, idx) ==
  LET RECURSIVE sum(_)
      sum(n) == IF n = 0 THEN 0 ELSE items[idx[n] + 1].points + sum(n - 1)
  IN sum(Len(idx))

weaponPoints(items, i) == IF i = NoIdx THEN 0 ELSE items[i + 1].points

totalPoints(m, T) ==
  statCost(m.tiers) + weaponPoints(T.shoot, m.loadout.rangedIdx)
  + weaponPoints(T.fight, m.loadout.meleeIdx)
  + SumPoints(T.accessories, m.loadout.accessoryIdx)
  + SumPoints(T.psychic, m.loadout.psychicIdx)
  + SumPoints(T.mutations, m.loadout.mutationIdx)

RosterWithinCaps(wb, T) ==
  /\ Len(wb) = 1 + Followers
  /\ wb[1].role = "Leader" /\ wb[1].pointCap = LeaderCap
  /\ \A i \in 2..Len(wb) : wb[i].role # "Leader" /\ wb[i].pointCap = FollowerCap
  /\ \A i \in 1..Len(wb) : totalPoints(wb[i], T) <= wb[i].pointCap

C21_NothingBeforeLoad ==
  load # "loaded" => (DOMAIN units = {} /\ round = emptyGame.round /\ activeTeam = None)
\* C22: after an import in either format every tier of every imported Unit
\* is an integer in 0..3 (a missing, non-numeric or out-of-range field has
\* become 1), and the import has not failed.
C22_ImportedTiersValid ==
  (Probed("builderWarbandToModels") \/ Probed("simpleArrayToModels")) =>
    LET r == probe.val[1]
    IN /\ ~r.threw
       /\ \A a \in {"defense", "shoot", "fight", "will"} :
            ~r.tiers[a].nan /\ r.tiers[a].n \in 0..3
\* C23: whenever a model begins its activation, its actionsLeft is 3 minus
\* its pending action penalty, kept within 1..3, and its pending penalty is
\* 0 from then on.
C23_ActivationBudget ==
  [][(activeId' # None /\ activeId' # activeId) =>
       /\ units'[activeId'].actionsLeft
            = Max2(1, Min2(BaseActions, BaseActions - units[activeId'].nextActActionPenalty))
       /\ units'[activeId'].actionsLeft \in 1..BaseActions
       /\ units'[activeId'].nextActActionPenalty = 0]_vars

\* C23 witness: a model with a pending penalty has just begun its activation
\* with fewer than 3 actions.
C23_Witness ==
  /\ activeId # None
  /\ ev.res \in {"began", "selected"}
  /\ hist = <<>>
  /\ acts[activeId] = 1
  /\ units[activeId].actionsLeft < BaseActions
  /\ units[activeId].nextActActionPenalty = 0
\* the Charge Shock test of the last request: a Charge was resolved and its
\* target failed the Horror Test
ChargeShockFailed ==
  ev'.res = "resolved" /\ actionSelected = "Charge" /\ ev'.ht = "fail"

\* C24: every failed Charge Shock test adds 1 to the defender's pending
\* action penalty, up to 2, and gains the defender one Horror token unless
\* it has gained one this round already (or holds MaxHorror).
C24_ChargeShockStacks ==
  [][ChargeShockFailed =>
       /\ units'[ev'.tgt].nextActActionPenalty
            = Min2(2, units[ev'.tgt].nextActActionPenalty + 1)
       /\ units'[ev'.tgt].horrorTokens - units[ev'.tgt].horrorTokens
            = (IF units[ev'.tgt].horrorGainedThisRound
                  \/ units[ev'.tgt].horrorTokens >= MaxHorror THEN 0 ELSE 1)]_vars
\* C25: a Recover is resolved only for a model that has not resolved a
\* Recover earlier in the same activation (hist holds the actions resolved
\* so far in the activation; with at most BaseActions actions, the last two
\* are all that can precede another one).
C25_RecoverOnce ==
  [][(ev'.res = "resolved" /\ actionSelected = "Recover")
       => "Recover" \notin Range(hist)]_vars
RedTotal(k) == probe.arg.rolls[k][1] + teamInitiativeBonusOf(probe.arg.Red)
BlueTotal(k) == probe.arg.rolls[k][2] + teamInitiativeBonusOf(probe.arg.Blue)
\* b is the highest Willpower modifier among the living models of the team,
\* 0 for a team with nobody alive
IsHighestWill(b, models) ==
  LET living == {i \in 1..Len(models) : ~models[i].dead}
  IN IF living = {} THEN b = 0
     ELSE /\ \E i \in living : b = willMod(models[i].will)
          /\ \A i \in living : b >= willMod(models[i].will)

Destinations == (-1..GRID_W) \X (-1..GRID_H)
\* the tile (nx, ny) is a legal destination for a Move of model m in S
LegalDestination(S, m, nx, ny) ==
  /\ nx - S.units[m].tx \in -2..2
  /\ ny - S.units[m].ty \in -2..2
  /\ nx \in 0..(GRID_W - 1) /\ ny \in 0..(GRID_H - 1)
  /\ board[ny][nx] # TILE_BLOCK
  /\ ~\E o \in DOMAIN S.units :
        ~S.units[o].dead /\ S.units[o].deployed
        /\ S.units[o].tx = nx /\ S.units[o].ty = ny
SamePlace(S, T, m) == S.units[m].tx = T.units[m].tx /\ S.units[m].ty = T.units[m].ty
\* a deployed model is about to resolve the Move it has selected
MoveAtHand ==
  /\ activeId # None /\ actionSelected = "Move"
  /\ units[activeId].deployed /\ ~units[activeId].dead

\* C29: a Move puts the mover on the destination only when that tile is
\* within Chebyshev distance 2 of its tile, inside the grid, not Blocking and
\* not occupied by a living model; for any other destination the Move is
\* rejected and the mover stays where it is. Every click that resolves or
\* rejects a Move obeys the same rule.
C29_MoveLegality ==
  /\ [](MoveAtHand =>
          \A d \in Destinations, roll \in D20 :
            LET r == doMove(St, activeId, d[1], d[2], roll)
            IN /\ ~LegalDestination(St, activeId, d[1], d[2])
                    => (~r.ok /\ SamePlace(r.S, St, activeId))
               /\ ~SamePlace(r.S, St, activeId)
                    => /\ LegalDestination(St, activeId, d[1], d[2])
                       /\ r.ok
                       /\ r.S.units[activeId].tx = d[1]
                       /\ r.S.units[activeId].ty = d[2])
  /\ [][(MoveAtHand /\ ev'.op = "click" /\ ev'.res \in {"resolved", "rejected"}) =>
          /\ ev'.res = "rejected" => SamePlace(St', St, activeId)
          /\ ~SamePlace(St', St, activeId)
               => LegalDestination(St, activeId, units'[activeId].tx,
                                   units'[activeId].ty)]_vars

\* a Move of two tiles has been resolved and left the mover next to the
\* Blocking tile, with another living model on the board
C29_Witness ==
  /\ ev.op = "click" /\ ev.res = "resolved" /\ LastAction = "Move"
  /\ activeId # None
  /\ units[activeId].tx \in {1, 3} /\ units[activeId].ty = 1
  /\ \E o \in Ids \ {activeId} : units[o].deployed /\ ~units[o].dead


\* the tile (nx, ny) is one a Charge of attacker a against t may end on:
\* next to t (diagonals included), within distance 2 of the tile of a, not
\* Blocking and holding no living model other than a
ChargeTile(S, a, t, nx, ny) ==
  /\ nx \in 0..(GRID_W - 1) /\ ny \in 0..(GRID_H - 1)
  /\ nx - S.units[t].tx \in -1..1 /\ ny - S.units[t].ty \in -1..1
  /\ <<nx, ny>> # <<S.units[t].tx, S.units[t].ty>>
  /\ nx - S.units[a].tx \in -2..2 /\ ny - S.units[a].ty \in -2..2
  /\ board[ny][nx] # TILE_BLOCK
  /\ ~\E o \in DOMAIN S.units \ {a} :
        ~S.units[o].dead /\ S.units[o].deployed
        /\ S.units[o].tx = nx /\ S.units[o].ty = ny
\* a deployed model has Charge selected and the click names an enemy
ChargeClick ==
  /\ activeId # None /\ actionSelected = "Charge" /\ units[activeId].deployed
  /\ ev'.op = "click" /\ ev'.res \in {"resolved", "rejected"} /\ ev'.tgt # None

\* C30: a resolved Charge leaves the charger on a tile next to the chosen
\* enemy, within Chebyshev distance 2 of the tile it left, not Blocking and
\* with no other living model on it, and the enemy where it was; when no
\* such tile exists the Charge is rejected, nobody moves and no Horror Test
\* is rolled.
C30_ChargeEndsAdjacent ==
  [][ChargeClick =>
       /\ ev'.res = "resolved" =>
            /\ ChargeTile(St, activeId, ev'.tgt, units'[activeId].tx, units'[activeId].ty)
            /\ SamePlace(St', St, ev'.tgt)
       /\ (~\E c \in (0..(GRID_W - 1)) \X (0..(GRID_H - 1)) :
              ChargeTile(St, activeId, ev'.tgt, c[1], c[2]))
            => /\ ev'.res = "rejected"
               /\ ev'.ht = "none" /\ ev'.dice = 0
               /\ units' = units]_vars

\* a Charge has been resolved: the charger stands next to its
\* target, which has taken the Charge Shock test
C30_Witness ==
  /\ ev.op = "click" /\ ev.res = "resolved" /\ LastAction = "Charge"
  /\ ev.tgt # None /\ ev.ht \in {"pass", "fail"}
  /\ activeId # None /\ teamOf(activeId) # teamOf(ev.tgt)
  /\ chebDist(units[activeId].tx, units[activeId].ty,
              units[ev.tgt].tx, units[ev.tgt].ty) = 1


\* the tile (nx, ny) is one model m may be placed on in S: inside the grid,
\* in the strip of EdgeWidth columns on the edge of its team (Blue left, Red
\* right), not Blocking and with no living model on it
PlacementTile(S, m, nx, ny) ==
  /\ nx \in 0..(GRID_W - 1) /\ ny \in 0..(GRID_H - 1)
  /\ IF teamOf(m) = "Blue" THEN nx \in 0..(EdgeWidth - 1)
     ELSE nx \in (GRID_W - EdgeWidth)..(GRID_W - 1)
  /\ board[ny][nx] # TILE_BLOCK
  /\ ~\E o \in DOMAIN S.units :
        ~S.units[o].dead /\ S.units[o].deployed
        /\ S.units[o].tx = nx /\ S.units[o].ty = ny
\* a click is handled for an active model that is not on the board yet
PlacementClick ==
  /\ activeId # None /\ actionSelected # None /\ ~units[activeId].deployed
  /\ ev'.op = "click" /\ activeId' = activeId

\* C31: a click for an active model that is not deployed, whatever action is
\* selected, is a placement or nothing: the model becomes deployed only on
\* a tile of its own band that is in the grid, not Blocking and unoccupied,
\* exactly one action is spent, the selection is cleared, and nothing else
\* of any Unit changes (no dice, no Aim streak, no Recover, no attack); a
\* refused placement changes no Unit.
C31_PlacementInstead ==
  [][PlacementClick =>
       /\ ev'.res \in {"deployed", "rejected"}
       /\ ev'.dice = 0 /\ ev'.ht = "none"
       /\ ev'.res = "deployed" =>
            /\ PlacementTile(St, activeId, units'[activeId].tx, units'[activeId].ty)
            /\ units' = [units EXCEPT ![activeId].deployed = TRUE,
                                      ![activeId].tx = units'[activeId].tx,
                                      ![activeId].ty = units'[activeId].ty,
                                      ![activeId].actionsLeft = @ - 1]
            /\ units[activeId].actionsLeft >= 1
            /\ actionSelected' = None /\ ~needsTargetClick'
       /\ ev'.res = "rejected" => units' = units]_vars

\* a model has just been placed in its band with Aim, Recover or an attack
\* selected a moment ago: one action gone, no streak, nothing rolled
C31_Witness ==
  /\ ev.op = "click" /\ ev.res = "deployed" /\ LastAction = "Deploy"
  /\ activeId # None /\ units[activeId].deployed
  /\ units[activeId].actionsLeft = BaseActions - 1
  /\ units[activeId].aimedCount = 0
  /\ \E o \in Ids \ {activeId} : units[o].deployed


\* the tiles of the sightline from a to t, the tile of a left out
Sightline(a, t) ==
  LET pts == bresenham(units[a].tx, units[a].ty, units[t].tx, units[t].ty)
  IN {pts[i] : i \in 2..Len(pts)}
HeavyOnSightline(a, t) == \E p \in Sightline(a, t) : board[p[2]][p[1]] = TILE_HEAVY
\* the light-cover flags of a Shoot of a at t: a corner clipped by the line,
\* or either end of it next to a Blocking or HeavyCover tile
LightFlag(a, t) ==
  \/ cornerClipLightCover(bresenham(units[a].tx, units[a].ty, units[t].tx, units[t].ty),
                          board)
  \/ adjacentToObstacle(units[t].tx, units[t].ty, board)
  \/ adjacentToObstacle(units[a].tx, units[a].ty, board)
\* the one terrain cover penalty of a Shoot of a at t
CoverPenalty(a, t) ==
  IF HeavyOnSightline(a, t) THEN -3 ELSE IF LightFlag(a, t) THEN -1 ELSE 0
\* the to-hit roll of a Shoot resolved as R was a hit on t
ShotHit(R, t) ==
  \/ R.dice = 2
  \/ R.S.units[t].wounds < units[t].wounds
  \/ R.S.units[t].dead /\ ~units[t].dead

WoundsLost == woundsMax("b1") - probe.val[1].r.S.units["b1"].wounds

\* C33: a natural 1 on the to-hit roll of a Shoot or a Fight misses whatever
\* the total: the saving throw is not rolled, the defender keeps its wounds
\* and stays in the game, and the attacker has spent one action.
C33_NaturalOneMisses ==
  (Probed("attackRoll") /\ probe.arg.roll = 1) =>
    /\ probe.val[1].r.dice = 1
    /\ probe.val[1].r.nat = 1
    /\ WoundsLost = 0
    /\ ~probe.val[1].r.S.units["b1"].dead
    /\ probe.val[1].out.res = "resolved"
    /\ probe.val[1].out.S.units["r1"].actionsLeft = BaseActions - 1

\* a natural 1 of a Fight whose total reaches the Armor Class has missed
C33_Witness ==
  /\ Probed("attackRoll") /\ probe.arg.roll = 1
  /\ probe.arg.kind = "Fight" /\ probe.arg.margin >= 0
  /\ probe.val[1].r.dice = 1 /\ WoundsLost = 0


\* the probed attack was rolled with a natural 20
NaturalTwenty == Probed("attackRoll") /\ probe.arg.roll = 20
\* the saving throw of b1 against the probed attack succeeds
SavePassed ==
  probe.arg.sroll + willMod(tiersOf("b1").will)
    >= Max2(10, saveTarget("b1") - probe.arg.ap)

\* C34 as claimed: a natural 20 hits; in a Shoot at a defender out of heavy
\* cover, and in every Fight, no saving throw is rolled and the defender
\* loses the weapon damage + 1; in a Shoot at a defender in heavy cover the
\* saving throw is rolled.
C34_NaturalTwentyDeniesSave ==
  NaturalTwenty =>
    IF probe.arg.kind = "Shoot" /\ probe.arg.cover = "heavy"
    THEN probe.val[1].r.dice = 2
    ELSE probe.val[1].r.dice = 1 /\ WoundsLost = probe.arg.dmg + 1

\* C34 amended: a natural 20 hits whatever the total; in a Shoot at a
\* defender out of heavy cover no saving throw is rolled and the defender
\* loses the weapon damage + 1; in a Shoot at a defender in heavy cover, and
\* in every Fight, the saving throw is rolled and the defender loses the
\* weapon damage + 1 exactly when it fails.
C34_NaturalTwentyAmended ==
  NaturalTwenty =>
    /\ probe.val[1].r.nat = 20
    /\ IF probe.arg.kind = "Shoot" /\ probe.arg.cover # "heavy"
       THEN probe.val[1].r.dice = 1 /\ WoundsLost = probe.arg.dmg + 1
       ELSE /\ probe.val[1].r.dice = 2
            /\ WoundsLost = (IF SavePassed THEN 0 ELSE probe.arg.dmg + 1)

\* a natural 20 of a Fight whose total is below the Armor Class: the saving
\* throw was rolled and passed, and the defender is unhurt
C34_Witness ==
  /\ NaturalTwenty /\ probe.arg.kind = "Fight" /\ probe.arg.margin < 0
  /\ probe.val[1].r.dice = 2 /\ SavePassed /\ WoundsLost = 0


\* a Disengage of the active model has been resolved with its opportunity
\* attack
DisengageResolved ==
  /\ activeId # None /\ actionSelected = "Disengage"
  /\ ev'.op = "click" /\ ev'.res = "resolved" /\ ev'.oa

\* C35: a resolved Disengage spends one action of the disengaging model and
\* no action of anybody else; the enemy that makes the opportunity attack
\* (the first engaged enemy) keeps its actionsLeft, and keeps its exhausted
\* flag and its aim count unless the Disengage ended the round (the round
\* start then resets them for every living model).
C35_OpportunityAttackFree ==
  [][DisengageResolved =>
       LET enemy == engagedEnemies(St, activeId)[1]
       IN /\ units'[enemy].actionsLeft = units[enemy].actionsLeft
          /\ round' = round =>
               /\ units'[enemy].exhausted = units[enemy].exhausted
               /\ units'[enemy].aimedCount = units[enemy].aimedCount
          /\ units[activeId].actionsLeft >= 1
          /\ units'[activeId].actionsLeft = units[activeId].actionsLeft - 1
          /\ \A o \in Ids \ {activeId} :
               units'[o].actionsLeft = units[o].actionsLeft]_vars

\* a Disengage has been resolved: the opportunity attack was rolled by an
\* enemy that is neither exhausted nor active, and the disengaging model
\* stands away from it
C35_Witness ==
  /\ ev.op = "click" /\ ev.res = "resolved" /\ ev.oa /\ ev.dice >= 1
  /\ LastAction = "Disengage"
  /\ activeId # None
  /\ \E e \in Ids :
       /\ teamOf(e) # teamOf(activeId) /\ ~units[e].dead /\ ~units[e].exhausted
       /\ chebDist(units[e].tx, units[e].ty, units[activeId].tx, units[activeId].ty) = 2


OnBoard == {m \in DOMAIN units : units[m].deployed /\ ~units[m].dead}

\* C37: in every reachable state the living deployed models stand on tiles
\* of the grid that are not Blocking, no two of them on the same tile.
C37_OneModelPerTile ==
  /\ \A m \in OnBoard :
       /\ withinGrid(units[m].tx, units[m].ty)
       /\ board[units[m].ty][units[m].tx] # TILE_BLOCK
  /\ \A m \in OnBoard : \A o \in OnBoard \ {m} :
       <<units[m].tx, units[m].ty>> # <<units[o].tx, units[o].ty>>

\* a Charge has just brought its model next to its target in the column of
\* the Blocking tile, with a third living model on the board
C37_Witness ==
  /\ ev.op = "click" /\ ev.res = "resolved" /\ LastAction = "Charge"
  /\ activeId # None /\ units[activeId].tx = EdgeWidth
  /\ Cardinality(OnBoard) = 3


C39_RerollHitResolved ==
  (/\ Probed("resolveShoot") /\ probe.val[1].rerolled
   /\ probe.arg.rr # 1 /\ (probe.arg.rr = 20 \/ probe.arg.rr >= probe.arg.need)) =>
    /\ probe.val[1].hit
    /\ probe.val[1].save = ~(probe.arg.rr = 20 /\ ~probe.arg.heavy)
    /\ probe.val[1].damage
         = (IF probe.val[1].save /\ probe.arg.savePass THEN 0
            ELSE probe.arg.dmg + (IF probe.arg.rr = 20 THEN 1 ELSE 0))


\* C40: starting a round always terminates.  A handler of the site's Game
\* that starts a round (loading a warband, Random Warbands, Next Round, End
\* Activation) never ends in the engine's stack error, it moves the round
\* counter on by no more than one, and the calls it has entered all return,
\* also when no model of either team is alive or a roster is empty.
C40_RoundStartTerminates ==
  /\ [](~sim.thrown /\ sim.round - sim.entry <= 1)
  /\ ((sim.stack # <<>>) ~> (sim.stack = <<>>))

====
